---- MODULE Spec2Model ----
(***************************************************************************)
(* A model of the catalog storage abstraction of src/dbio: the JSON file   *)
(* backend (backends/json_file.py), the PostgreSQL backend                 *)
(* (backends/postgresql_updated.py), the cache (cache.py) and the          *)
(* DBIOManager facade (core.py), and the MigrationManager and the          *)
(* HybridBackend built on managers (migration.py).                         *)
(*                                                                         *)
(* Python values are modelled as follows.  A dict is a function whose      *)
(* domain is the set of its keys.  A JSON value that is not a mapping (a   *)
(* string such as "junk") is the one-field record NotAMapping.  Time       *)
(* stamps (datetime.utcnow().isoformat() + 'Z') are natural numbers read   *)
(* from the clock `now`, which every write advances.                       *)
(***************************************************************************)
EXTENDS Integers, Sequences, FiniteSets, TLC

\* ------------------------------------------------------------------ bounds
\* The clock stops here: at most MaxClock writes in one behaviour.
MaxClock == 3

\* ------------------------------------------------------------ Python values
EmptyDict == [x \in {} |-> x]

\* A JSON string where a mapping is expected ("a record that is not a mapping").
NotAMapping == [scalar |-> "junk"]

\* isinstance(x, dict)
IsDict(x) == "scalar" \notin DOMAIN x

\* `k in x`: key membership for a dict, substring test for a string (the junk
\* string contains none of the names used here).
In(k, x) == IsDict(x) /\ k \in DOMAIN x

\* d[k] = val
Put(d, k, val) == [x \in DOMAIN d \cup {k} |-> IF x = k THEN val ELSE d[x]]

\* del d[k]
Del(d, k) == [x \in DOMAIN d \ {k} |-> d[x]]

\* a.update(b)
DictUpdate(a, b) == [x \in DOMAIN a \cup DOMAIN b |-> IF x \in DOMAIN b THEN b[x] ELSE a[x]]

\* ---------------------------------------------------------------- inputs
Volumes == {"V1", "V2"}
Libraries == {"L1", "L2"}
Names == {"O1", "O2"}

\* The (volume, library, name) keys the callers use.
Keys == {<<"V1", "L1", "O1">>, <<"V1", "L1", "O2">>, <<"V1", "L2", "O1">>}

\* Attribute payloads handed to update_object.  CREATED |-> 0 is a stamp the
\* caller brings along (older than every stamp of the clock).
Payloads ==
    { [TYPE |-> "PGM", PGMTYPE |-> "JAVA"],
      [TYPE |-> "DATASET"],
      [TYPE |-> "PGM", CREATED |-> 0],
      EmptyDict }

\* None
PyNone == [scalar |-> "None"]

\* Python truth value of a dict, a string or None.
Truthy(x) == IF IsDict(x) THEN DOMAIN x # {} ELSE x # PyNone

\* d[v][l] = val and d[v][l][o] = val
Put2(d, v, l, val) == Put(d, v, Put(d[v], l, val))
Put3(d, v, l, o, val) == Put(d, v, Put(d[v], l, Put(d[v][l], o, val)))

\* ------------------------------------------------------------- variables
VARIABLES
    backend,   \* config['backend'] of the manager: "json_file" or "postgresql"
    fs,        \* the JSON backend's files: live (file_path), backup, tmp
    cache,     \* the Redis store behind CacheManager: key -> value
    now,       \* the clock datetime.utcnow() reads
    db,        \* the PostgreSQL backend's tables (schema aspuser)
    last,      \* the latest call: its operation, arguments and outcome
    pc,        \* per thread of one JSONFileBackend: where its call stands
    local,     \* per thread: the call's arguments, its catalog, its outcome
    lock,      \* the holder of self.lock (threading.RLock), or "none"
    faults,    \* the number of I/O failures that have hit a save
    observed,  \* the latest read of the catalog file and what it returned
    calls,     \* the number of write calls the threads have started
    mm,        \* the MigrationManager: backend of source_config, target_config
    backups,   \* the files of the backup directory: name -> content
    mig,       \* the latest MigrationManager call: arguments and outcome
    hyb,       \* the HybridBackend: write_backends, write_errors, latest call
    fac,       \* a DBIOManager with its cache object, and its latest call
    pg         \* one PostgreSQLBackend instance: pool, connections, callers

\* ------------------------------------------------- JSON backend: the files
Absent == [state |-> "absent", data |-> EmptyDict]
Complete(catalog) == [state |-> "complete", data |-> catalog]
\* A file opened with 'w' whose dump did not finish: not parseable.
Partial == [state |-> "partial", data |-> EmptyDict]

\* os.rename(src, dst): dst is replaced, src is gone.
Rename(files, src, dst) == [files EXCEPT ![dst] = files[src], ![src] = Absent]

\* _save_catalog, step (a): the live file, if any, becomes the backup.
SaveBackupStep(files) ==
    IF files.live.state # "absent" THEN Rename(files, "live", "backup") ELSE files

\* _save_catalog, step (b): the catalog is dumped to the .tmp file and fsynced.
SaveWriteTmpStep(files, catalog) == [files EXCEPT !.tmp = Complete(catalog)]

\* _save_catalog, step (c): the .tmp file is renamed over the live file.
SaveRenameStep(files) == Rename(files, "tmp", "live")

\* _save_catalog, step (d): the backup, if any, is removed.
SaveRemoveBackupStep(files) ==
    IF files.backup.state # "absent" THEN [files EXCEPT !.backup = Absent] ELSE files

\* An except branch that leaves the backup where it is.
SaveKeepBackupStep(files) == files

\* _save_catalog's except branch: the backup, if any, is renamed back.
SaveRestoreStep(files) ==
    IF files.backup.state # "absent" THEN Rename(files, "backup", "live") ELSE files

\* _save_catalog when no step fails: returns True.
save_catalog(files, catalog) ==
    SaveRemoveBackupStep(SaveRenameStep(SaveWriteTmpStep(SaveBackupStep(files), catalog)))

\* _load_catalog: a missing or unparseable live file reads as {}.
load_catalog(files) ==
    IF files.live.state = "complete" THEN files.live.data ELSE EmptyDict

\* JSONFileBackend.__init__: an empty catalog is saved when there is no file.
json_init(files) ==
    IF files.live.state = "absent" THEN save_catalog(files, EmptyDict) ELSE files

\* The outcome of a backend call: the files afterwards, what it returned,
\* what it raised.
Outcome(files, ret, exc) == [fs |-> files, ret |-> ret, exc |-> exc]

\* ------------------------------------------- JSON backend: the operations
\* Each operator is one step of the source; the value a step has reached
\* is handed to the next as a parameter.

json_get_all_objects(files) == load_catalog(files)

\* volume in catalog and library in catalog[volume] and name in catalog[...]
HasObject(catalog, v, l, o) ==
    In(v, catalog) /\ In(l, catalog[v]) /\ In(o, catalog[v][l])

json_lookup(catalog, v, l, o) ==
    IF HasObject(catalog, v, l, o) THEN catalog[v][l][o] ELSE PyNone

json_get_object(files, v, l, o) == json_lookup(load_catalog(files), v, l, o)

\* The catalog a step of update_object has reached, and what it raised.
Ok(catalog) == [catalog |-> catalog, exc |-> "none"]
Raised(catalog, exc) == [catalog |-> catalog, exc |-> exc]

\* update_object, lines 112-114
json_ensure_volume(catalog, v) ==
    IF ~In(v, catalog) THEN Put(catalog, v, EmptyDict) ELSE catalog

\* update_object, lines 116-118: item assignment on a volume that is not a
\* mapping raises TypeError
json_ensure_library(catalog, v, l) ==
    IF In(l, catalog[v]) THEN Ok(catalog)
    ELSE IF ~IsDict(catalog[v]) THEN Raised(catalog, "TypeError")
    ELSE Ok(Put2(catalog, v, l, EmptyDict))

\* update_object, lines 120-122
json_ensure_object(st, v, l, o) ==
    IF st.exc # "none" \/ In(o, st.catalog[v][l]) THEN st
    ELSE IF ~IsDict(st.catalog[v][l]) THEN Raised(st.catalog, "TypeError")
    ELSE Ok(Put3(st.catalog, v, l, o, EmptyDict))

\* The attributes update_object stores (lines 128-129): CREATED is carried
\* over from the existing record when the payload brings none.
PreserveCreated(existing, attributes) ==
    IF In("CREATED", existing) /\ ~In("CREATED", attributes)
    THEN Put(attributes, "CREATED", existing["CREATED"])
    ELSE attributes

\* update_object, lines 125-132, on the catalog with the object in place
json_store_attributes(catalog, v, l, o, existing, attributes) ==
    IF ~IsDict(existing) THEN Raised(catalog, "AttributeError")
    ELSE IF ~IsDict(attributes)
    THEN Raised(catalog, IF In("CREATED", existing) THEN "TypeError" ELSE "ValueError")
    ELSE Ok(Put3(catalog, v, l, o,
                 DictUpdate(existing, PreserveCreated(existing, attributes))))

json_merge_attributes(st, v, l, o, attributes) ==
    IF st.exc # "none" THEN st
    ELSE json_store_attributes(st.catalog, v, l, o, st.catalog[v][l][o], attributes)

\* Lines 112-132 of update_object on a loaded catalog: the catalog after the
\* update, or the exception an entry that is not a mapping raises.
json_apply_update(catalog, v, l, o, attributes) ==
    json_merge_attributes(
        json_ensure_object(json_ensure_library(json_ensure_volume(catalog, v), v, l),
                           v, l, o),
        v, l, o, attributes)

\* update_object, line 135: the save, unless a step raised
json_save_update(files, st) ==
    IF st.exc = "none"
    THEN Outcome(save_catalog(files, st.catalog), "True", "none")
    ELSE Outcome(files, "None", st.exc)

json_update_object(files, v, l, o, attributes) ==
    json_save_update(files, json_apply_update(load_catalog(files), v, l, o, attributes))

\* delete_object, lines 147-151, once the object is deleted: its library
\* goes if that is now empty, then its volume if that is now empty.
json_prune_volume(catalog, v) ==
    IF DOMAIN catalog[v] = {} THEN Del(catalog, v) ELSE catalog

json_prune(catalog, v, l) ==
    IF DOMAIN catalog[v][l] = {}
    THEN json_prune_volume(Put(catalog, v, Del(catalog[v], l)), v)
    ELSE catalog

\* delete_object, lines 145-151
json_apply_delete(catalog, v, l, o) ==
    json_prune(Put2(catalog, v, l, Del(catalog[v][l], o)), v, l)

\* A delete that reports success whether or not the object was there.
json_delete_reports_true(files, catalog, v, l, o) ==
    Outcome(IF HasObject(catalog, v, l, o)
            THEN save_catalog(files, json_apply_delete(catalog, v, l, o)) ELSE files,
            "True", "none")

json_delete_loaded(files, catalog, v, l, o) ==
    IF HasObject(catalog, v, l, o)
    THEN Outcome(save_catalog(files, json_apply_delete(catalog, v, l, o)), "True", "none")
    ELSE Outcome(files, "False", "none")

json_delete_object(files, v, l, o) ==
    json_delete_loaded(files, load_catalog(files), v, l, o)

\* operation.get(field): None (written "None") when the entry lacks the field.
OpGet(operation, field) ==
    IF field \in DOMAIN operation THEN operation[field] ELSE "None"

\* operation.get('attributes', {})
OpAttributes(operation) ==
    IF "attributes" \in DOMAIN operation THEN operation["attributes"] ELSE EmptyDict

ZeroBulkStats == [created |-> 0, updated |-> 0, deleted |-> 0, errors |-> 0]

\* counters[name] += 1
Count(stats, name) == [stats EXCEPT ![name] = @ + 1]

\* bulk_operations, lines 266-293: an update entry.  What the update wrote
\* before it raised stays in the catalog.
json_bulk_update(acc, exists, st) ==
    [catalog |-> st.catalog,
     stats |-> Count(acc.stats, IF st.exc # "none" THEN "errors"
                                ELSE IF exists THEN "updated" ELSE "created")]

\* bulk_operations, lines 295-308: a delete entry
json_bulk_delete(acc, v, l, o) ==
    IF HasObject(acc.catalog, v, l, o)
    THEN [catalog |-> json_apply_delete(acc.catalog, v, l, o),
          stats |-> Count(acc.stats, "deleted")]
    ELSE acc

json_bulk_entry(acc, operation, v, l, o) ==
    IF OpGet(operation, "type") = "update"
    THEN json_bulk_update(acc, HasObject(acc.catalog, v, l, o),
             json_apply_update(acc.catalog, v, l, o, OpAttributes(operation)))
    ELSE IF OpGet(operation, "type") = "delete"
    THEN json_bulk_delete(acc, v, l, o)
    ELSE acc

\* One turn of the loop of bulk_operations (lines 259-312) on the catalog
\* read at the start.  An entry that is not a mapping raises AttributeError
\* at operation.get, which the loop catches and counts.
json_bulk_step(acc, operation) ==
    IF ~IsDict(operation)
    THEN [catalog |-> acc.catalog, stats |-> Count(acc.stats, "errors")]
    ELSE json_bulk_entry(acc, operation, OpGet(operation, "volume"),
                         OpGet(operation, "library"), OpGet(operation, "object_name"))

\* The loop of bulk_operations: the entries are applied in list order.
json_bulk_loop(acc, operations) ==
    LET after[i \in 0..Len(operations)] ==
            IF i = 0 THEN acc ELSE json_bulk_step(after[i - 1], operations[i])
    IN  after[Len(operations)]

\* bulk_operations, lines 315-316: the one save, and the counters returned
json_bulk_save(files, acc) ==
    [fs |-> save_catalog(files, acc.catalog), ret |-> acc.stats, exc |-> "none",
     saves |-> 1]

\* bulk_operations: one load, the loop, one save.
json_bulk_operations(files, operations) ==
    json_bulk_save(files,
        json_bulk_loop([catalog |-> load_catalog(files), stats |-> ZeroBulkStats],
                       operations))

\* len(library_data); the junk string "junk" has length 4
PyLen(x) == IF IsDict(x) THEN Cardinality(DOMAIN x) ELSE 4

RECURSIVE SumOver(_, _)
SumOver(S, f) ==
    IF S = {} THEN 0
    ELSE f[CHOOSE y \in S : TRUE] + SumOver(S \ {CHOOSE y \in S : TRUE}, f)

\* d.get(k, {})
GetOrEmpty(d, k) == IF k \in DOMAIN d THEN d[k] ELSE EmptyDict

\* existing_catalog[volume] after the inner loop of the merge (lines 366-369)
json_merge_volume(existing_volume, volume_data) ==
    [l \in DOMAIN existing_volume \cup DOMAIN volume_data |->
        IF l \notin DOMAIN volume_data THEN existing_volume[l]
        ELSE DictUpdate(GetOrEmpty(existing_volume, l), volume_data[l])]

\* The "deep merge" of import_catalog (lines 361-371): every library of the
\* incoming data is dict.update()d into the existing library of that name.
json_merge(existing_catalog, catalog_data) ==
    [v \in DOMAIN existing_catalog \cup DOMAIN catalog_data |->
        IF v \notin DOMAIN catalog_data THEN existing_catalog[v]
        ELSE json_merge_volume(GetOrEmpty(existing_catalog, v), catalog_data[v])]

\* What the merge loop raises: volume_data.items() on a volume that is not a
\* mapping, .update() on or with a library that is not a mapping.
json_merge_exc(existing_catalog, catalog_data) ==
    IF \E v \in DOMAIN catalog_data : ~IsDict(catalog_data[v])
    THEN "AttributeError"
    ELSE IF \E v \in DOMAIN catalog_data :
              v \in DOMAIN existing_catalog /\ ~IsDict(existing_catalog[v])
    THEN "TypeError"
    ELSE IF \E v \in DOMAIN catalog_data : \E l \in DOMAIN catalog_data[v] :
              In(v, existing_catalog) /\ In(l, existing_catalog[v])
              /\ ~IsDict(existing_catalog[v][l])
    THEN "AttributeError"
    ELSE IF \E v \in DOMAIN catalog_data : \E l \in DOMAIN catalog_data[v] :
              ~IsDict(catalog_data[v][l])
    THEN "ValueError"
    ELSE "none"

\* The counting loop of import_catalog (lines 377-381).
json_import_stats(catalog_to_save) ==
    [volumes |-> Cardinality(DOMAIN catalog_to_save),
     libraries |-> SumOver(DOMAIN catalog_to_save,
                    [v \in DOMAIN catalog_to_save |-> Cardinality(DOMAIN catalog_to_save[v])]),
     objects |-> SumOver(DOMAIN catalog_to_save,
                    [v \in DOMAIN catalog_to_save |->
                        SumOver(DOMAIN catalog_to_save[v],
                            [l \in DOMAIN catalog_to_save[v] |-> PyLen(catalog_to_save[v][l])])]),
     errors |-> 0]

ZeroImportStats == [volumes |-> 0, libraries |-> 0, objects |-> 0, errors |-> 0]

\* import_catalog, lines 377-388: the counting loop raises AttributeError at
\* volume_data.items() for a volume that is not a mapping; else the save.
json_import_save(files, catalog_to_save) ==
    IF \E v \in DOMAIN catalog_to_save : ~IsDict(catalog_to_save[v])
    THEN [fs |-> files, ret |-> ZeroImportStats, exc |-> "AttributeError"]
    ELSE [fs |-> save_catalog(files, catalog_to_save),
          ret |-> json_import_stats(catalog_to_save), exc |-> "none"]

\* import_catalog with merge=True, on the loaded catalog
json_import_merge(files, existing_catalog, catalog_data) ==
    IF json_merge_exc(existing_catalog, catalog_data) # "none"
    THEN [fs |-> files, ret |-> ZeroImportStats,
          exc |-> json_merge_exc(existing_catalog, catalog_data)]
    ELSE json_import_save(files, json_merge(existing_catalog, catalog_data))

json_import_catalog(files, catalog_data, merge) ==
    IF merge THEN json_import_merge(files, load_catalog(files), catalog_data)
    ELSE json_import_save(files, catalog_data)

\* -------------------------------------------- PostgreSQL backend: the tables
\* Rows are keyed by the names their surrogate ids stand for: a volume by its
\* name, a library by <<volume, library>>, an object and its detail rows by
\* <<volume, library, name>>.  Of the six detail tables the model keeps
\* programs and datasets; maps, copybooks, jobs and layouts are handled by the
\* same code pattern.
EmptyDb ==
    [volumes |-> {}, libraries |-> {}, objects |-> EmptyDict,
     programs |-> EmptyDict, datasets |-> EmptyDict]

\* attributes.get(name, default)
AttrGet(attributes, name, default) ==
    IF name \in DOMAIN attributes THEN attributes[name] ELSE default

\* A new row of aspuser.objects: the INSERT of update_object names neither
\* created_at nor updated_at, so both take the column default, the time of
\* the statement.
pg_new_object_row(object_type, file_size, ts) ==
    [object_type |-> object_type, file_size |-> file_size,
     created_at |-> ts, updated_at |-> ts]

\* update_object, lines 366-375: INSERT INTO objects ... ON CONFLICT DO UPDATE
pg_upsert_object(objects, key, object_type, file_size, ts) ==
    IF key \in DOMAIN objects
    THEN [objects EXCEPT ![key] =
             [@ EXCEPT !.object_type = object_type, !.file_size = file_size,
                       !.updated_at = ts]]
    ELSE Put(objects, key, pg_new_object_row(object_type, file_size, ts))

\* update_object, lines 380-392: the detail row of a PGM
pg_upsert_program(programs, key, object_type, attributes) ==
    IF object_type = "PGM"
    THEN Put(programs, key,
             [pgm_type |-> AttrGet(attributes, "PGMTYPE", "UNKNOWN"),
              encoding |-> AttrGet(attributes, "ENCODING", "UTF-8")])
    ELSE programs

\* update_object, lines 394-408: the detail row of a DATASET
pg_upsert_dataset(datasets, key, object_type, attributes) ==
    IF object_type = "DATASET"
    THEN Put(datasets, key,
             [rec_type |-> AttrGet(attributes, "RECTYPE", "FB"),
              rec_len |-> AttrGet(attributes, "RECLEN", 80),
              encoding |-> AttrGet(attributes, "ENCODING", "UTF-8")])
    ELSE datasets

\* update_object, lines 327-473, at statement time ts: the volume and the
\* library are inserted unless present, the object row is inserted or, on
\* conflict, its type, size and updated_at are overwritten, and the detail
\* row of the payload's TYPE is upserted with the per-type defaults.
pg_apply_typed(tables, key, object_type, attributes, ts) ==
    [volumes |-> tables.volumes \cup {key[1]},
     libraries |-> tables.libraries \cup {<<key[1], key[2]>>},
     objects |-> pg_upsert_object(tables.objects, key, object_type,
                                  AttrGet(attributes, "SIZE", 0), ts),
     programs |-> pg_upsert_program(tables.programs, key, object_type, attributes),
     datasets |-> pg_upsert_dataset(tables.datasets, key, object_type, attributes)]

pg_apply_update(tables, v, l, o, attributes, ts) ==
    pg_apply_typed(tables, <<v, l, o>>, AttrGet(attributes, "TYPE", "DATASET"),
                   attributes, ts)

\* update_object outside an explicit transaction: BEGIN ... COMMIT on a
\* connection of its own.  A payload that is not a mapping raises at
\* attributes.get.
pg_update_object(tables, v, l, o, attributes, ts) ==
    IF ~IsDict(attributes)
    THEN [db |-> tables, ret |-> "None", exc |-> "AttributeError"]
    ELSE [db |-> pg_apply_update(tables, v, l, o, attributes, ts),
          ret |-> "True", exc |-> "none"]

\* get_object, lines 257-261: TYPE, CREATED and UPDATED come from the row
pg_base_data(row) ==
    [TYPE |-> row.object_type, CREATED |-> row.created_at, UPDATED |-> row.updated_at]

\* get_object, lines 264-270: the columns of the LEFT JOINed programs row
pg_program_data(data, programs, key) ==
    IF data["TYPE"] = "PGM" /\ key \in DOMAIN programs
    THEN Put(Put(data, "PGMTYPE", programs[key].pgm_type),
             "ENCODING", programs[key].encoding)
    ELSE data

\* get_object, lines 272-278: the columns of the LEFT JOINed datasets row;
\* a rec_len of 0 is falsy and left out
pg_rec_len(data, row) ==
    IF row.rec_len # 0 THEN Put(data, "RECLEN", row.rec_len) ELSE data

pg_dataset_data(data, datasets, key) ==
    IF data["TYPE"] = "DATASET" /\ key \in DOMAIN datasets
    THEN Put(pg_rec_len(Put(data, "RECTYPE", datasets[key].rec_type), datasets[key]),
             "ENCODING", datasets[key].encoding)
    ELSE data

\* get_object, lines 310-311: SIZE only when file_size is truthy
pg_size_data(data, row) ==
    IF row.file_size # 0 THEN Put(data, "SIZE", row.file_size) ELSE data

\* get_object, lines 257-313, for a key that has an object row
pg_object_data(tables, key) ==
    pg_size_data(
        pg_dataset_data(
            pg_program_data(pg_base_data(tables.objects[key]), tables.programs, key),
            tables.datasets, key),
        tables.objects[key])

pg_get_object(tables, v, l, o) ==
    IF <<v, l, o>> \in DOMAIN tables.objects
    THEN pg_object_data(tables, <<v, l, o>>)
    ELSE PyNone

\* get_all_objects: the hierarchy is built from the object rows JOINed with
\* their library and volume, so a library or volume row without objects
\* does not show.
pg_get_all_objects(tables) ==
    [v \in {k[1] : k \in DOMAIN tables.objects} |->
        [l \in {k[2] : k \in {k2 \in DOMAIN tables.objects : k2[1] = v}} |->
            [o \in {k[3] : k \in {k2 \in DOMAIN tables.objects :
                                      k2[1] = v /\ k2[2] = l}} |->
                pg_object_data(tables, <<v, l, o>>)]]]

\* delete_object, lines 487-494: DELETE FROM objects; the detail rows go with
\* the object row they reference.  No statement touches libraries or volumes.
pg_apply_delete(tables, key) ==
    [tables EXCEPT !.objects = Del(@, key), !.programs = Del(@, key),
                   !.datasets = Del(@, key)]

\* delete_object: returns cursor.rowcount > 0
pg_delete_object(tables, v, l, o) ==
    IF <<v, l, o>> \in DOMAIN tables.objects
    THEN [db |-> pg_apply_delete(tables, <<v, l, o>>), ret |-> "True", exc |-> "none"]
    ELSE [db |-> tables, ret |-> "False", exc |-> "none"]

\* The tables, the counters and the number of commits a bulk_operations
\* loop has reached.
pg_bulk_acc(tables, stats, saves) == [db |-> tables, stats |-> stats, saves |-> saves]

\* bulk_operations, lines 658-662: an update entry; update_object commits
\* on the connection it took from the pool.
pg_bulk_update(acc, r) ==
    IF r.exc # "none"
    THEN pg_bulk_acc(acc.db, Count(acc.stats, "errors"), acc.saves)
    ELSE pg_bulk_acc(r.db, Count(acc.stats, "updated"), acc.saves + 1)

\* bulk_operations, lines 664-667: a delete entry; delete_object commits
\* whether or not a row went.
pg_bulk_delete(acc, r) ==
    pg_bulk_acc(r.db, IF r.ret = "True" THEN Count(acc.stats, "deleted") ELSE acc.stats,
                acc.saves + 1)

pg_bulk_entry(acc, operation, v, l, o, ts) ==
    IF OpGet(operation, "type") = "update"
    THEN pg_bulk_update(acc, pg_update_object(acc.db, v, l, o, OpAttributes(operation), ts))
    ELSE IF OpGet(operation, "type") = "delete"
    THEN pg_bulk_delete(acc, pg_delete_object(acc.db, v, l, o))
    ELSE acc

\* One turn of the loop of bulk_operations (lines 651-671).
pg_bulk_step(acc, operation, ts) ==
    IF ~IsDict(operation)
    THEN pg_bulk_acc(acc.db, Count(acc.stats, "errors"), acc.saves)
    ELSE pg_bulk_entry(acc, operation, OpGet(operation, "volume"),
                       OpGet(operation, "library"), OpGet(operation, "object_name"), ts)

pg_bulk_loop(acc, operations, ts) ==
    LET after[i \in 0..Len(operations)] ==
            IF i = 0 THEN acc ELSE pg_bulk_step(after[i - 1], operations[i], ts)
    IN  after[Len(operations)]

pg_bulk_result(acc) ==
    [db |-> acc.db, ret |-> acc.stats, exc |-> "none", saves |-> acc.saves]

\* bulk_operations outside an explicit transaction: the connection it holds
\* executes nothing; every entry is committed by the call it makes.
pg_bulk_operations(tables, operations, ts) ==
    pg_bulk_result(pg_bulk_loop(pg_bulk_acc(tables, ZeroBulkStats, 0), operations, ts))

\* The order in which catalog_data.items() yields the volumes of the
\* imported data.
VolumeOrder == <<"V1", "V2">>

\* The objects the three nested loops of import_catalog (lines 794-810)
\* reach within the volumes vols: a volume, library or object entry that is
\* not a mapping is passed over by 'continue'.
ImportableKeys(catalog_data, vols) ==
    {k \in vols \X Libraries \X Names :
        /\ In(k[1], catalog_data)
        /\ In(k[2], catalog_data[k[1]])
        /\ In(k[3], catalog_data[k[1]][k[2]])
        /\ IsDict(catalog_data[k[1]][k[2]][k[3]])}

\* The update_object calls of the import, one per object reached.
RECURSIVE pg_import_objects(_, _, _, _)
pg_import_objects(tables, catalog_data, keys, ts) ==
    IF keys = {} THEN tables
    ELSE pg_import_objects(
             pg_apply_update(tables, (CHOOSE k \in keys : TRUE)[1],
                 (CHOOSE k \in keys : TRUE)[2], (CHOOSE k \in keys : TRUE)[3],
                 catalog_data[(CHOOSE k \in keys : TRUE)[1]][(CHOOSE k \in keys : TRUE)[2]]
                             [(CHOOSE k \in keys : TRUE)[3]], ts),
             catalog_data, keys \ {CHOOSE k \in keys : TRUE}, ts)

\* The volumes VolumeOrder yields before the first one in blocked.
RECURSIVE VolumesBefore(_, _)
VolumesBefore(order, blocked) ==
    IF order = << >> \/ Head(order) \in blocked THEN {}
    ELSE {Head(order)} \cup VolumesBefore(Tail(order), blocked)

\* The counters of import_catalog (lines 799, 806, 816): entries passed over
\* by 'continue' are counted nowhere; update_object returns True or raises.
pg_import_stats(catalog_data) ==
    [volumes |-> Cardinality({v \in DOMAIN catalog_data : IsDict(catalog_data[v])}),
     libraries |-> Cardinality({p \in Volumes \X Libraries :
                       In(p[1], catalog_data) /\ In(p[2], catalog_data[p[1]])
                       /\ IsDict(catalog_data[p[1]][p[2]])}),
     objects |-> Cardinality(ImportableKeys(catalog_data, Volumes)),
     errors |-> 0]

\* The imported volumes whose update_object waits: with merge=False the
\* calling connection holds the uncommitted DELETE of every volume row, and
\* the INSERT ... ON CONFLICT (volume_name) that update_object runs on a
\* second connection of the pool waits for that transaction to end, which it
\* does only after the import loop.
pg_blocked_volumes(tables, catalog_data) ==
    {k[1] : k \in ImportableKeys(catalog_data, Volumes)} \cap tables.volumes

\* import_catalog with merge=False when an update_object waits: the call
\* does not return; the objects of the volumes before it are committed and
\* the DELETEs are not.
pg_import_hang(tables, catalog_data, blocked, ts) ==
    [db |-> pg_import_objects(tables, catalog_data,
                ImportableKeys(catalog_data, VolumesBefore(VolumeOrder, blocked)), ts),
     ret |-> ZeroImportStats, exc |-> "hang"]

\* import_catalog that runs to its COMMIT, on the rows left by the DELETEs
pg_import_done(tables, catalog_data, ts) ==
    [db |-> pg_import_objects(tables, catalog_data,
                ImportableKeys(catalog_data, Volumes), ts),
     ret |-> pg_import_stats(catalog_data), exc |-> "none"]

pg_import_catalog(tables, catalog_data, merge, ts) ==
    IF merge THEN pg_import_done(tables, catalog_data, ts)
    ELSE IF pg_blocked_volumes(tables, catalog_data) # {}
    THEN pg_import_hang(tables, catalog_data, pg_blocked_volumes(tables, catalog_data), ts)
    ELSE pg_import_done(EmptyDb, catalog_data, ts)

\* ---------------------------------------------------------------- the cache
\* Keys are written as tuples: "catalog:all" is <<"catalog", "all">>,
\* "object:V:L:N" is <<"object", V, L, N>>.
CatalogAllKey == <<"catalog", "all">>
ObjectKey(v, l, o) == <<"object", v, l, o>>

\* The glob patterns the manager uses: "catalog:*" is <<"catalog", "*">>,
\* "*" is <<"*">>, any other pattern names one key.
GlobMatch(pattern, key) ==
    IF pattern[Len(pattern)] = "*"
    THEN /\ Len(key) >= Len(pattern) - 1
         /\ SubSeq(key, 1, Len(pattern) - 1) = SubSeq(pattern, 1, Len(pattern) - 1)
    ELSE key = pattern

\* CacheManager.get: None on a miss
cache_get(store, key) == IF key \in DOMAIN store THEN store[key] ELSE PyNone

\* CacheManager.set
cache_set(store, key, val) == Put(store, key, val)

\* CacheManager.invalidate: every key matching the pattern is deleted
cache_invalidate(store, pattern) ==
    [key \in {k \in DOMAIN store : ~GlobMatch(pattern, k)} |-> store[key]]

\* CacheManager.clear
cache_clear(store) == EmptyDict

\* ------------------------------------------------- the configured backend
\* self.backend of the manager is one of the two backends; a call's outcome
\* names the files and the tables afterwards, of which it changed its own.
FromJson(r, tables) ==
    [fs |-> r.fs, db |-> tables, ret |-> r.ret, exc |-> r.exc]
FromPg(r, files) ==
    [fs |-> files, db |-> r.db, ret |-> r.ret, exc |-> r.exc]
BulkFromJson(r, tables) ==
    [fs |-> r.fs, db |-> tables, ret |-> r.ret, exc |-> r.exc, saves |-> r.saves]
BulkFromPg(r, files) ==
    [fs |-> files, db |-> r.db, ret |-> r.ret, exc |-> r.exc, saves |-> r.saves]

backend_get_object(b, files, tables, v, l, o) ==
    IF b = "json_file" THEN json_get_object(files, v, l, o)
    ELSE pg_get_object(tables, v, l, o)

backend_get_all_objects(b, files, tables) ==
    IF b = "json_file" THEN json_get_all_objects(files)
    ELSE pg_get_all_objects(tables)

backend_update_object(b, files, tables, v, l, o, attributes, ts) ==
    IF b = "json_file" THEN FromJson(json_update_object(files, v, l, o, attributes), tables)
    ELSE FromPg(pg_update_object(tables, v, l, o, attributes, ts), files)

backend_delete_object(b, files, tables, v, l, o) ==
    IF b = "json_file" THEN FromJson(json_delete_object(files, v, l, o), tables)
    ELSE FromPg(pg_delete_object(tables, v, l, o), files)

backend_bulk_operations(b, files, tables, operations, ts) ==
    IF b = "json_file" THEN BulkFromJson(json_bulk_operations(files, operations), tables)
    ELSE BulkFromPg(pg_bulk_operations(tables, operations, ts), files)

backend_import_catalog(b, files, tables, catalog_data, merge, ts) ==
    IF b = "json_file" THEN FromJson(json_import_catalog(files, catalog_data, merge), tables)
    ELSE FromPg(pg_import_catalog(tables, catalog_data, merge, ts), files)

\* ------------------------------------------------------------ DBIOManager
\* What a facade method raises for what its backend raised: every exception
\* is wrapped in DBIOException; a call that does not return stays so.
Wrapped(exc) == IF exc \in {"none", "hang"} THEN exc ELSE "DBIOException"

\* update_catalog_info, lines 110-114: TYPE and UPDATED, then the kwargs
StampUpdated(object_type, kwargs, ts) ==
    DictUpdate([TYPE |-> object_type, UPDATED |-> ts], kwargs)

\* update_catalog_info, lines 117-119: "if not existing" holds for None and
\* for an empty record alike
StampCreated(existing, attributes) ==
    IF ~Truthy(existing) THEN Put(attributes, "CREATED", attributes["UPDATED"])
    ELSE attributes

\* update_catalog_info and delete_catalog_entry: the two invalidations
InvalidateObject(store, v, l, o) ==
    cache_invalidate(cache_invalidate(store, <<"catalog", "*">>), ObjectKey(v, l, o))

\* A facade write that leaves the cache as it is.
facade_outcome_keep(r, store, v, l, o) ==
    [fs |-> r.fs, db |-> r.db, ret |-> r.ret, exc |-> Wrapped(r.exc), cache |-> store]

\* The outcome of a facade write on one object: the cache is invalidated
\* only when the backend reported success.
facade_outcome(r, store, v, l, o) ==
    [fs |-> r.fs, db |-> r.db, ret |-> r.ret, exc |-> Wrapped(r.exc),
     cache |-> IF r.exc = "none" /\ r.ret = "True"
               THEN InvalidateObject(store, v, l, o) ELSE store]

update_catalog_info(b, files, tables, store, v, l, o, object_type, kwargs, ts) ==
    facade_outcome(
        backend_update_object(b, files, tables, v, l, o,
            StampCreated(backend_get_object(b, files, tables, v, l, o),
                         StampUpdated(object_type, kwargs, ts)), ts),
        store, v, l, o)

delete_catalog_entry(b, files, tables, store, v, l, o) ==
    facade_outcome(backend_delete_object(b, files, tables, v, l, o), store, v, l, o)

\* bulk_operations of the manager: invalidate("*") once the backend returned
facade_bulk_outcome(r, store) ==
    [fs |-> r.fs, db |-> r.db, ret |-> r.ret, exc |-> Wrapped(r.exc),
     saves |-> r.saves,
     cache |-> IF r.exc = "none" THEN cache_invalidate(store, <<"*">>) ELSE store]

bulk_operations(b, files, tables, store, operations, ts) ==
    facade_bulk_outcome(backend_bulk_operations(b, files, tables, operations, ts), store)

\* import_catalog of the manager: cache.clear() once the backend returned
facade_import_outcome(r, store) ==
    [fs |-> r.fs, db |-> r.db, ret |-> r.ret, exc |-> Wrapped(r.exc),
     cause |-> r.exc,
     cache |-> IF r.exc = "none" THEN cache_clear(store) ELSE store]

import_catalog(b, files, tables, store, catalog_data, merge, ts) ==
    facade_import_outcome(
        backend_import_catalog(b, files, tables, catalog_data, merge, ts), store)

\* get_catalog_info, lines 69-85: a truthy cached value is returned as it
\* is; otherwise the backend is read and the result cached.
catalog_from_cache(cached_data, store, catalog_data) ==
    IF Truthy(cached_data) THEN [ret |-> cached_data, cache |-> store]
    ELSE [ret |-> catalog_data, cache |-> cache_set(store, CatalogAllKey, catalog_data)]

get_catalog_info(b, files, tables, store) ==
    catalog_from_cache(cache_get(store, CatalogAllKey), store,
                       backend_get_all_objects(b, files, tables))

\* ------------------------------------------------------- MigrationManager
\* migration.py.  The managers a MigrationManager constructs here are those
\* of configurations whose 'cache' section is absent or not enabled:
\* self.cache stays None (core.py 44), so each of their reads goes to the
\* backend and the store handed to the facade operators is empty.  Managers
\* whose configurations enable the cache are those of SpecShared.

\* DBIOManager(config), core.py 32-59: the JSON and the PostgreSQL backend
\* can be constructed; MySQLBackend.__init__ raises DBIOException (mysql.py
\* 12-14).
manager_exc(b) == IF b \in {"json_file", "postgresql"} THEN "none" ELSE "DBIOException"

\* manager.get_catalog_info() of such a manager
manager_catalog(b, files, tables) == get_catalog_info(b, files, tables, EmptyDict).ret

\* The value of stats['errors']: a list (line 57) or an int
PyList(items) == [list |-> items]
PyInt(n) == [int |-> n]
IsList(x) == DOMAIN x = {"list"}

\* x.append(..) and len(x): an int has neither
py_append_exc(x) == IF IsList(x) THEN "none" ELSE "AttributeError"
py_len_exc(x) == IF IsList(x) THEN "none" ELSE "TypeError"

\* _count_objects, lines 131-137
count_objects(catalog) ==
    SumOver(DOMAIN catalog,
        [v \in DOMAIN catalog |->
            SumOver(DOMAIN catalog[v],
                [l \in DOMAIN catalog[v] |-> PyLen(catalog[v][l])])])

\* The files of the backup directory are named after the migration id, which
\* is the time the migration started.
BackupFile(id) == <<"catalog_backup", id>>
OriginalFile(id) == <<"catalog_original", id>>

\* _create_backup, lines 121-126: the copy of the JSON source file
backup_original(s, files, dir, id) ==
    IF s = "json_file" /\ files.live.state # "absent"
    THEN Put(dir, OriginalFile(id), files.live) ELSE dir

\* json.dump(catalog_data, f) of export_to_json (core.py 271-275): the
\* catalogs the backends return hold strings and numbers under string keys,
\* which json.load gives back as they were.
export_to_json(dir, name, catalog_data) == Put(dir, name, Complete(catalog_data))

\* _create_backup, lines 111-129
create_backup(s, files, tables, dir, id) ==
    backup_original(s, files,
        export_to_json(dir, BackupFile(id), manager_catalog(s, files, tables)), id)

\* _find_differences, one direction (lines 178-194 and 197-212): what a has
\* and b lacks, the search going no deeper below a missing entry.
one_sided(label, a, b) ==
    {<<label, "volume", v>> : v \in DOMAIN a \ DOMAIN b}
    \cup {<<label, "library", p[1], p[2]>> :
            p \in {q \in Volumes \X Libraries :
                     /\ In(q[1], a) /\ In(q[1], b)
                     /\ In(q[2], a[q[1]]) /\ ~In(q[2], b[q[1]])}}
    \cup {<<label, "object", k[1], k[2], k[3]>> :
            k \in {q \in Volumes \X Libraries \X Names :
                     /\ HasObject(a, q[1], q[2], q[3])
                     /\ In(q[1], b) /\ In(q[2], b[q[1]])
                     /\ ~In(q[3], b[q[1]][q[2]])}}

\* A comparison that takes every pair of types for equal.
no_type_mismatches(source_catalog, target_catalog) == {}

\* _find_differences, lines 186-194: object_data.get('TYPE') of both sides
type_mismatches(source_catalog, target_catalog) ==
    {<<"Type mismatch", "object", k[1], k[2], k[3]>> :
        k \in {q \in Volumes \X Libraries \X Names :
                 /\ HasObject(source_catalog, q[1], q[2], q[3])
                 /\ HasObject(target_catalog, q[1], q[2], q[3])
                 /\ AttrGet(source_catalog[q[1]][q[2]][q[3]], "TYPE", "None")
                      # AttrGet(target_catalog[q[1]][q[2]][q[3]], "TYPE", "None")}}

\* _find_differences, lines 174-214
find_differences(source_catalog, target_catalog) ==
    one_sided("Missing", source_catalog, target_catalog)
    \cup type_mismatches(source_catalog, target_catalog)
    \cup one_sided("Extra", target_catalog, source_catalog)

NoValidation ==
    [ran |-> FALSE, success |-> FALSE, source_objects |-> 0, target_objects |-> 0,
     count_match |-> FALSE, differences |-> {}]

\* _validate_migration, lines 149-164
validation_result(source_count, target_count, differences) ==
    [ran |-> TRUE,
     success |-> differences = {} /\ source_count = target_count,
     source_objects |-> source_count, target_objects |-> target_count,
     count_match |-> source_count = target_count,
     differences |-> differences]

\* _validate_migration, lines 139-147, on the catalogs the two managers return
validate_migration(source_catalog, target_catalog) ==
    validation_result(count_objects(source_catalog), count_objects(target_catalog),
                      find_differences(source_catalog, target_catalog))

\* The statistics of a migration: errors is the value of stats['errors'],
\* success is "unset" until line 98 or 107 sets it.
MigStats(source_objects, backup_path, errors, validation, success) ==
    [source_objects |-> source_objects, backup_path |-> backup_path,
     errors |-> errors, validation |-> validation, success |-> success]

ZeroMigStats == MigStats(0, << >>, PyList(<< >>), NoValidation, "unset")

\* What a MigrationManager call leaves and gives: opened names the managers
\* it constructed, imported tells whether an import returned, stats is what
\* it returned when exc is "none".
MigOutcome(files, tables, dir, exc, opened, imported, stats) ==
    [fs |-> files, db |-> tables, backups |-> dir, exc |-> exc, opened |-> opened,
     imported |-> imported, stats |-> stats]

\* stats.update(import_stats), line 87: every key of the import statistics
\* replaces the one of that name, 'errors' among them.
stats_update(errors, import_stats) ==
    IF "errors" \in DOMAIN import_stats THEN PyInt(import_stats.errors) ELSE errors

\* Lines 94-98: the append of line 95 when the validation failed, the len()
\* of line 98 otherwise.
migrate_tail_exc(errors, validation) ==
    IF validation.ran /\ ~validation.success /\ py_append_exc(errors) # "none"
    THEN py_append_exc(errors)
    ELSE py_len_exc(errors)

\* The handler, lines 103-109: it appends to stats['errors'] and then raises
\* MigrationError; what the append raises leaves the handler instead.
migrate_handler(errors) ==
    IF py_append_exc(errors) # "none" THEN py_append_exc(errors) ELSE "MigrationError"

\* Lines 95-98 when nothing raises
migrate_success(errors, validation) ==
    IF validation.ran /\ ~validation.success THEN "False"
    ELSE IF Len(errors.list) = 0 THEN "True" ELSE "False"

\* Lines 89-109 once the import has returned
migrate_finish(files, tables, dir, source_objects, backup_path, errors, validation) ==
    IF migrate_tail_exc(errors, validation) # "none"
    THEN MigOutcome(files, tables, dir, migrate_handler(errors), {"source", "target"},
                    TRUE, MigStats(source_objects, backup_path, errors, validation, "unset"))
    ELSE MigOutcome(files, tables, dir, "none", {"source", "target"}, TRUE,
                    MigStats(source_objects, backup_path, errors, validation,
                             migrate_success(errors, validation)))

\* Lines 86-92: a call that does not return stays so; what the import raised
\* reaches the handler with stats['errors'] still the list.
migrate_imported(s, t, r, dir, source_objects, backup_path, validate_after) ==
    IF r.exc = "hang"
    THEN MigOutcome(r.fs, r.db, dir, "hang", {"source", "target"}, FALSE, ZeroMigStats)
    ELSE IF r.exc # "none"
    THEN MigOutcome(r.fs, r.db, dir, migrate_handler(PyList(<< >>)),
                    {"source", "target"}, FALSE, ZeroMigStats)
    ELSE migrate_finish(r.fs, r.db, dir, source_objects, backup_path,
             stats_update(PyList(<< >>), r.ret),
             IF validate_after
             THEN validate_migration(manager_catalog(s, r.fs, r.db),
                                     manager_catalog(t, r.fs, r.db))
             ELSE NoValidation)

\* Lines 76-86 of a run that is not a dry run
migrate_import(s, t, files, tables, dir, backup_path, validate_after, ts) ==
    migrate_imported(s, t,
        import_catalog(t, files, tables, EmptyDict, manager_catalog(s, files, tables),
                       FALSE, ts),
        dir, count_objects(manager_catalog(s, files, tables)), backup_path,
        validate_after)

\* A dry run that writes the backup all the same.
migrate_dry_run_with_backup(s, files, tables, dir, ts) ==
    MigOutcome(files, tables, create_backup(s, files, tables, dir, ts), "none",
               {"source"}, FALSE,
               MigStats(count_objects(manager_catalog(s, files, tables)), << >>,
                        PyList(<< >>), NoValidation, "unset"))

\* Lines 76-82 of a dry run: the source is counted and the statistics
\* returned
migrate_dry_run(s, files, tables, dir, ts) ==
    MigOutcome(files, tables, dir, "none", {"source"}, FALSE,
               MigStats(count_objects(manager_catalog(s, files, tables)), << >>,
                        PyList(<< >>), NoValidation, "unset"))

\* migrate_catalog, lines 35-109; the migration id is the time ts
migrate_catalog(s, t, files, tables, dir, backup_before, validate_after, dry_run, ts) ==
    IF manager_exc(s) # "none"
    THEN MigOutcome(files, tables, dir, migrate_handler(PyList(<< >>)), {}, FALSE,
                    ZeroMigStats)
    ELSE IF dry_run THEN migrate_dry_run(s, files, tables, dir, ts)
    ELSE IF manager_exc(t) # "none"
    THEN MigOutcome(files, tables, dir, migrate_handler(PyList(<< >>)), {"source"},
                    FALSE, ZeroMigStats)
    ELSE IF backup_before
    THEN migrate_import(s, t, files, tables, create_backup(s, files, tables, dir, ts),
                        BackupFile(ts), validate_after, ts)
    ELSE migrate_import(s, t, files, tables, dir, << >>, validate_after, ts)

\* What rollback_migration and sync_backends raise for what the import
\* raised (lines 249-251 and 281-283)
MigrationWrapped(exc) == IF exc \in {"none", "hang"} THEN exc ELSE "MigrationError"

\* Lines 238-246 of rollback_migration and 263-279 of sync_backends: the
\* statistics of the import are what the caller is told
imported_outcome(r, dir, opened) ==
    MigOutcome(r.fs, r.db, dir, MigrationWrapped(r.exc), opened, r.exc = "none",
               MigStats(IF r.exc = "none" THEN r.ret.objects ELSE 0, << >>,
                        PyList(<< >>), NoValidation, "unset"))

\* rollback_migration, lines 216-251: the file is read with json.load and
\* imported into the backend of target_config with merge=False
rollback_migration(t, files, tables, dir, backup_path, ts) ==
    IF backup_path \notin DOMAIN dir \/ dir[backup_path].state # "complete"
    THEN MigOutcome(files, tables, dir, "MigrationError", {}, FALSE, ZeroMigStats)
    ELSE IF manager_exc(t) # "none"
    THEN MigOutcome(files, tables, dir, "MigrationError", {}, FALSE, ZeroMigStats)
    ELSE imported_outcome(
             import_catalog(t, files, tables, EmptyDict, dir[backup_path].data, FALSE, ts),
             dir, {"target"})

\* A sync that replaces what the receiver holds.
sync_replacing(b, files, tables, catalog_data, dir, ts) ==
    imported_outcome(import_catalog(b, files, tables, EmptyDict, catalog_data, FALSE, ts),
                     dir, {"source", "target"})

\* sync_backends, lines 267-275: the import with merge=True into the receiver
sync_import(b, files, tables, catalog_data, dir, ts) ==
    imported_outcome(import_catalog(b, files, tables, EmptyDict, catalog_data, TRUE, ts),
                     dir, {"source", "target"})

\* sync_backends, lines 253-283: every direction other than
\* 'source_to_target' imports the target's catalog into the source
sync_backends(s, t, files, tables, dir, direction, ts) ==
    IF manager_exc(s) # "none" \/ manager_exc(t) # "none"
    THEN MigOutcome(files, tables, dir, "MigrationError",
                    IF manager_exc(s) # "none" THEN {} ELSE {"source"}, FALSE,
                    ZeroMigStats)
    ELSE IF direction = "source_to_target"
    THEN sync_import(t, files, tables, manager_catalog(s, files, tables), dir, ts)
    ELSE sync_import(s, files, tables, manager_catalog(t, files, tables), dir, ts)

\* The record of a MigrationManager call; id is the time it was made
MigCall(op, id, dry_run, backup_before, validate_after, arg, r) ==
    [op |-> op, id |-> id, dry_run |-> dry_run, backup_before |-> backup_before,
     validate_after |-> validate_after, arg |-> arg, exc |-> r.exc,
     opened |-> r.opened, imported |-> r.imported, stats |-> r.stats]

NoMigCall ==
    MigCall("none", 0, FALSE, FALSE, FALSE, << >>,
            MigOutcome(EmptyDict, EmptyDict, EmptyDict, "none", {}, FALSE, ZeroMigStats))

\* MigrationManager(source_config, target_config), by config['backend']
NoMigration == [source |-> "json_file", target |-> "postgresql"]

\* ---------------------------------------------------------- HybridBackend
\* migration.py 286-326.  The write managers are named after the
\* configuration they were built from; config gives each one's backend.

\* One write manager's update_catalog_info (core.py 92-133).  failing tells
\* that its backend write raises, be it the save of the file or a statement
\* on the connection: the backend stays as it was and the manager raises
\* DBIOException.
hybrid_write(b, files, tables, k, a, ts, failing) ==
    IF failing
    THEN [fs |-> files, db |-> tables, ret |-> "None", exc |-> "DBIOException",
          cache |-> EmptyDict]
    ELSE update_catalog_info(b, files, tables, EmptyDict, k[1], k[2], k[3],
                             a[1], a[2], ts)

\* A loop that gives up at the first write manager that fails.
hybrid_turn_abort(acc, name, r) ==
    IF ~acc.success THEN acc
    ELSE [fs |-> r.fs, db |-> r.db, attempted |-> Append(acc.attempted, name),
          success |-> r.exc = "none",
          write_errors |-> IF r.exc = "none" THEN acc.write_errors
                           ELSE Append(acc.write_errors, name)]

\* Lines 314-320: what the manager returned is dropped, what it raised is
\* appended to write_errors (the message is written as the manager's name)
hybrid_turn(acc, name, r) ==
    [fs |-> r.fs, db |-> r.db, attempted |-> Append(acc.attempted, name),
     success |-> acc.success /\ r.exc = "none",
     write_errors |-> IF r.exc = "none" THEN acc.write_errors
                      ELSE Append(acc.write_errors, name)]

hybrid_step(acc, name, b, k, a, ts, failing) ==
    hybrid_turn(acc, name, hybrid_write(b, acc.fs, acc.db, k, a, ts, failing))

\* A call that appends to the errors of the calls before it.
hybrid_start_keep(files, tables, write_errors) ==
    [fs |-> files, db |-> tables, attempted |-> << >>, success |-> TRUE,
     write_errors |-> write_errors]

\* Lines 311-312: success = True, self.write_errors = []
hybrid_start(files, tables, write_errors) ==
    [fs |-> files, db |-> tables, attempted |-> << >>, success |-> TRUE,
     write_errors |-> << >>]

\* The loop of line 314, in the order of write_backends
hybrid_loop(acc, write_backends, config, k, a, ts, failing) ==
    LET after[i \in 0..Len(write_backends)] ==
            IF i = 0 THEN acc
            ELSE hybrid_step(after[i - 1], write_backends[i],
                             config[write_backends[i]], k, a, ts,
                             write_backends[i] \in failing)
    IN  after[Len(write_backends)]

\* HybridBackend.update_catalog_info, lines 308-322
hybrid_update_catalog_info(files, tables, write_errors, write_backends, config, k, a, ts, failing) ==
    hybrid_loop(hybrid_start(files, tables, write_errors), write_backends, config,
                k, a, ts, failing)

\* A HybridBackend before its first call: got is what get_write_errors()
\* returned last, failing the write managers whose write raised in the
\* latest call, before the write_errors that call found, key and
\* object_type its arguments.
NoHybrid ==
    [write_backends |-> << >>, write_errors |-> << >>, ret |-> "None",
     attempted |-> << >>, failing |-> {}, got |-> << >>, before |-> << >>,
     key |-> << >>, object_type |-> "None"]

\* ------------------------------------------- the manager's cache object
\* self.cache of a DBIOManager (core.py 41-45) is None or a cache object.
\* A CacheManager whose _init_redis failed (cache.py 53-56) has enabled
\* False and no redis_client; `failing` marks a CacheManager whose every
\* Redis command raises; a NullCache (cache.py 242-267) overrides every
\* method.
CacheObject(kind, enabled, redis_client, failing) ==
    [kind |-> kind, enabled |-> enabled, redis_client |-> redis_client,
     failing |-> failing]

NoCache == CacheObject("None", FALSE, FALSE, FALSE)
RedisCache == CacheObject("CacheManager", TRUE, TRUE, FALSE)
FailingCache == CacheObject("CacheManager", TRUE, TRUE, TRUE)
DisabledCache == CacheObject("CacheManager", FALSE, FALSE, FALSE)
NullCache == CacheObject("NullCache", FALSE, FALSE, FALSE)

\* json.dumps(value) of _serialize_value raises TypeError for a datetime,
\* which the rows of the PostgreSQL query_objects carry
Serializable(val) ==
    ~("rows" \in DOMAIN val /\ \E row \in val.rows : "created_at" \in DOMAIN row)

\* A cache read that lets the failure of the Redis command through.
CacheManager_get_raising(c, store, key) ==
    IF ~c.enabled \/ ~c.redis_client THEN PyNone
    ELSE IF c.failing THEN [scalar |-> "RedisError"]
    ELSE cache_get(store, key)

\* CacheManager.get, cache.py 69-90: None when disabled (79-80) and when the
\* Redis command raised (88-90)
CacheManager_get(c, store, key) ==
    IF ~c.enabled \/ ~c.redis_client THEN PyNone
    ELSE IF c.failing THEN PyNone
    ELSE cache_get(store, key)

\* CacheManager.set, cache.py 92-116: the store afterwards; nothing is
\* stored when disabled, when the value cannot be serialised and when the
\* Redis command raised
CacheManager_set(c, store, key, val) ==
    IF ~c.enabled \/ ~c.redis_client THEN store
    ELSE IF ~Serializable(val) \/ c.failing THEN store
    ELSE cache_set(store, key, val)

\* An invalidation that leaves every key in place.
CacheManager_invalidate_nothing(c, store, pattern) == store

\* CacheManager.invalidate, cache.py 139-162: the store afterwards
CacheManager_invalidate(c, store, pattern) ==
    IF ~c.enabled \/ ~c.redis_client THEN store
    ELSE IF c.failing THEN store
    ELSE cache_invalidate(store, pattern)

\* CacheManager.clear, cache.py 164-181: the store afterwards
CacheManager_clear(c, store) ==
    IF ~c.enabled \/ ~c.redis_client THEN store
    ELSE IF c.failing THEN store
    ELSE cache_clear(store)

\* self.cache.get(key) and the other calls of the manager on its cache
\* object; NullCache.get returns None, its set, invalidate and clear do
\* nothing (cache.py 248-261)
self_cache_get(c, store, key) ==
    IF c.kind = "NullCache" THEN PyNone ELSE CacheManager_get(c, store, key)

self_cache_set(c, store, key, val) ==
    IF c.kind = "NullCache" THEN store ELSE CacheManager_set(c, store, key, val)

self_cache_invalidate(c, store, pattern) ==
    IF c.kind = "NullCache" THEN store ELSE CacheManager_invalidate(c, store, pattern)

self_cache_clear(c, store) ==
    IF c.kind = "NullCache" THEN store ELSE CacheManager_clear(c, store)

\* "if self.cache:" of the manager: any cache object is truthy, None is not
HasCache(c) == c.kind # "None"

\* ------------------------------------------------ statistics and queries
\* The <<volume, library, name>> of every object of a well-formed catalog
catalog_keys(catalog) ==
    UNION {UNION {{<<v, l, o>> : o \in DOMAIN catalog[v][l]} : l \in DOMAIN catalog[v]}
           : v \in DOMAIN catalog}

\* get_statistics of the JSON backend walks volume_data.values(),
\* library_data.values() and object_data.get: a record that is not a mapping
\* raises AttributeError
json_walk_exc(catalog) ==
    IF \E v \in DOMAIN catalog :
          \/ ~IsDict(catalog[v])
          \/ \E l \in DOMAIN catalog[v] :
                \/ ~IsDict(catalog[v][l])
                \/ \E o \in DOMAIN catalog[v][l] : ~IsDict(catalog[v][l][o])
    THEN "AttributeError" ELSE "none"

\* object_data.get('TYPE', 'UNKNOWN')
json_type_of(catalog, k) == AttrGet(catalog[k[1]][k[2]][k[3]], "TYPE", "UNKNOWN")

\* objects_by_type of a catalog
json_objects_by_type(catalog, keys) ==
    [t \in {json_type_of(catalog, k) : k \in keys} |->
        Cardinality({k \in keys : json_type_of(catalog, k) = t})]

\* JSONFileBackend.get_statistics, json_file.py 320-357.  recent_updates_24h
\* and file_size_bytes are left out.
json_statistics(catalog, ts) ==
    [ret |-> [backend |-> "json_file",
              total_objects |-> Cardinality(catalog_keys(catalog)),
              volumes |-> PyLen(catalog),
              libraries |-> SumOver(DOMAIN catalog,
                                    [v \in DOMAIN catalog |-> PyLen(catalog[v])]),
              objects_by_type |-> json_objects_by_type(catalog, catalog_keys(catalog)),
              timestamp |-> ts],
     exc |-> "none"]

json_get_statistics(files, ts) ==
    IF json_walk_exc(load_catalog(files)) # "none"
    THEN [ret |-> PyNone, exc |-> json_walk_exc(load_catalog(files))]
    ELSE json_statistics(load_catalog(files), ts)

\* PostgreSQLBackend.get_statistics, postgresql_updated.py 600-638: the
\* counts are row counts of the three tables.  connection_pool_size is left
\* out.
pg_get_statistics(tables, ts) ==
    [ret |-> [backend |-> "postgresql",
              total_objects |-> Cardinality(DOMAIN tables.objects),
              volumes |-> Cardinality(tables.volumes),
              libraries |-> Cardinality(tables.libraries),
              objects_by_type |->
                  [t \in {tables.objects[k].object_type : k \in DOMAIN tables.objects} |->
                      Cardinality({k \in DOMAIN tables.objects :
                                      tables.objects[k].object_type = t})],
              timestamp |-> ts],
     exc |-> "none"]

\* The list a query returns, as the set of its rows; an empty list is falsy
Rows(S) == [rows |-> S]

\* filters.get(name) of a query: a filter on a name the filters do not
\* carry matches everything
FilterMatches(filters, name, val) ==
    ~Truthy(filters) \/ name \notin DOMAIN filters \/ filters[name] = val

\* JSONFileBackend.query_objects, json_file.py 157-218, for filters on
\* object_type, volume and library, without sort and limit
json_query_row(catalog, k) ==
    [volume_name |-> k[1], library_name |-> k[2], object_name |-> k[3],
     attributes |-> catalog[k[1]][k[2]][k[3]]]

json_query_rows(catalog, filters) ==
    Rows({json_query_row(catalog, k) :
            k \in {k2 \in catalog_keys(catalog) :
                      /\ FilterMatches(filters, "object_type",
                                       AttrGet(catalog[k2[1]][k2[2]][k2[3]], "TYPE", "None"))
                      /\ FilterMatches(filters, "volume", k2[1])
                      /\ FilterMatches(filters, "library", k2[2])}})

json_query_objects(files, filters) ==
    IF json_walk_exc(load_catalog(files)) # "none"
    THEN [ret |-> PyNone, exc |-> json_walk_exc(load_catalog(files))]
    ELSE [ret |-> json_query_rows(load_catalog(files), filters), exc |-> "none"]

\* PostgreSQLBackend.query_objects, postgresql_updated.py 513-569: the rows
\* carry created_at and updated_at as datetime values
pg_query_row(tables, k) ==
    [volume_name |-> k[1], library_name |-> k[2], object_name |-> k[3],
     object_type |-> tables.objects[k].object_type,
     created_at |-> [datetime |-> tables.objects[k].created_at],
     updated_at |-> [datetime |-> tables.objects[k].updated_at],
     file_size |-> tables.objects[k].file_size]

pg_query_objects(tables, filters) ==
    [ret |-> Rows({pg_query_row(tables, k) :
                     k \in {k2 \in DOMAIN tables.objects :
                               /\ FilterMatches(filters, "object_type",
                                                tables.objects[k2].object_type)
                               /\ FilterMatches(filters, "volume", k2[1])
                               /\ FilterMatches(filters, "library", k2[2])}}),
     exc |-> "none"]

\* ------------------------------------- DBIOManager over its cache object
\* The methods of core.py with self.cache as a parameter: c is the cache
\* object, store the Redis store behind it.  A lower-level failure is named
\* by its exception; that name stands for its message str(e).

\* What a facade call leaves and hands back: msg is the message of the
\* exception raised, << >> when none was, lower the failure below the
\* facade that the call met.
FacOut(files, tables, store, ret, exc, msg, lower) ==
    [fs |-> files, db |-> tables, cache |-> store, ret |-> ret, exc |-> exc, msg |-> msg,
     lower |-> lower]

\* f"Failed to ...: {str(e)}"
WrappedMessage(prefix, lower) == <<prefix, lower>>

\* raise DBIOException(f"...: {str(e)}") of a facade method
Reraised(files, tables, store, prefix, lower) ==
    FacOut(files, tables, store, PyNone, Wrapped(lower),
           IF lower = "hang" THEN << >> ELSE WrappedMessage(prefix, lower), lower)

\* The backend call of a read, or the failure that hits it
Faulty(r, fault) == IF fault = "none" THEN r ELSE [ret |-> PyNone, exc |-> fault]

\* Python truth value of what a cache read returned: None, a dict or a list
CachedTruthy(x) == IF "rows" \in DOMAIN x THEN x.rows # {} ELSE Truthy(x)

\* The cache keys of the reads
StatsKey == <<"stats", "catalog">>
QueryKey(filters) == <<"query", IF Truthy(filters) THEN filters ELSE EmptyDict>>

\* get_catalog_info 69-90, query_objects 175-195, get_statistics 239-258:
\* a truthy cached value is returned; otherwise the backend is called, its
\* result cached and returned, its failure wrapped
cached_read(c, files, tables, store, key, cached, r, prefix) ==
    IF HasCache(c) /\ CachedTruthy(cached)
    THEN FacOut(files, tables, store, cached, "none", << >>, "none")
    ELSE IF r.exc # "none" THEN Reraised(files, tables, store, prefix, r.exc)
    ELSE FacOut(files, tables,
                IF HasCache(c) THEN self_cache_set(c, store, key, r.ret) ELSE store,
                r.ret, "none", << >>, "none")

DBIOManager_get_catalog_info(c, b, files, tables, store, fault) ==
    cached_read(c, files, tables, store, CatalogAllKey,
                self_cache_get(c, store, CatalogAllKey),
                Faulty([ret |-> backend_get_all_objects(b, files, tables), exc |-> "none"],
                       fault),
                "Failed to get catalog info")

backend_query_objects(b, files, tables, filters) ==
    IF b = "json_file" THEN json_query_objects(files, filters)
    ELSE pg_query_objects(tables, filters)

\* query_objects, core.py 175: the cache key is built with
\* json.dumps(filters) before the try block, with or without a cache; a
\* filter value that cannot be serialised raises TypeError there.  The
\* filters explored carry a datetime under created_after and strings under
\* every other name.
DBIOManager_query_objects(c, b, files, tables, store, filters, fault) ==
    IF Truthy(filters) /\ "created_after" \in DOMAIN filters
    THEN FacOut(files, tables, store, PyNone, "TypeError",
                <<"Object of type datetime is not JSON serializable">>, "TypeError")
    ELSE
    cached_read(c, files, tables, store, QueryKey(filters),
                self_cache_get(c, store, QueryKey(filters)),
                Faulty(backend_query_objects(b, files, tables, filters), fault),
                "Failed to query objects")

backend_get_statistics(b, files, tables, ts) ==
    IF b = "json_file" THEN json_get_statistics(files, ts)
    ELSE pg_get_statistics(tables, ts)

DBIOManager_get_statistics(c, b, files, tables, store, ts, fault) ==
    cached_read(c, files, tables, store, StatsKey,
                self_cache_get(c, store, StatsKey),
                Faulty(backend_get_statistics(b, files, tables, ts), fault),
                "Failed to get statistics")

\* update_catalog_info 125-127 and delete_catalog_entry 151-153:
\* "if self.cache and success" the two invalidations
invalidate_after_write(c, store, success, v, l, o) ==
    IF HasCache(c) /\ success
    THEN self_cache_invalidate(c, self_cache_invalidate(c, store, <<"catalog", "*">>),
                               ObjectKey(v, l, o))
    ELSE store

\* The outcome of a facade write on one object
object_write(c, store, r, prefix, v, l, o) ==
    IF r.exc # "none" THEN Reraised(r.fs, r.db, store, prefix, r.exc)
    ELSE FacOut(r.fs, r.db, invalidate_after_write(c, store, r.ret = "True", v, l, o),
                r.ret, "none", << >>, "none")

DBIOManager_update_catalog_info(c, b, files, tables, store, v, l, o, object_type, kwargs, ts) ==
    object_write(c, store,
        backend_update_object(b, files, tables, v, l, o,
            StampCreated(backend_get_object(b, files, tables, v, l, o),
                         StampUpdated(object_type, kwargs, ts)), ts),
        "Failed to update catalog info", v, l, o)

DBIOManager_delete_catalog_entry(c, b, files, tables, store, v, l, o) ==
    object_write(c, store, backend_delete_object(b, files, tables, v, l, o),
                 "Failed to delete catalog entry", v, l, o)

\* bulk_operations 224-235: "if self.cache: self.cache.invalidate('*')"
bulk_write(c, store, r) ==
    IF r.exc # "none"
    THEN Reraised(r.fs, r.db, store, "Failed to perform bulk operations", r.exc)
    ELSE FacOut(r.fs, r.db,
                IF HasCache(c) THEN self_cache_invalidate(c, store, <<"*">>) ELSE store,
                r.ret, "none", << >>, "none")

DBIOManager_bulk_operations(c, b, files, tables, store, operations, ts) ==
    bulk_write(c, store, backend_bulk_operations(b, files, tables, operations, ts))

\* import_catalog 391-401: "if self.cache: self.cache.clear()"
import_write(c, store, r) ==
    IF r.exc # "none"
    THEN Reraised(r.fs, r.db, store, "Failed to import catalog", r.exc)
    ELSE FacOut(r.fs, r.db,
                IF HasCache(c) THEN self_cache_clear(c, store) ELSE store,
                r.ret, "none", << >>, "none")

DBIOManager_import_catalog(c, b, files, tables, store, catalog_data, merge, ts) ==
    import_write(c, store, backend_import_catalog(b, files, tables, catalog_data, merge, ts))

\* ------------------------------------------------ health_check and close
\* JSONFileBackend.health_check, json_file.py 391-423: a failure of the read
\* or of the write test, and the count over a volume that is not a mapping,
\* end in the unhealthy document
Unhealthy(b, error, ts) ==
    [status |-> "unhealthy", backend |-> b, error |-> error, timestamp |-> ts]

json_health_check(catalog, fault, ts) ==
    IF fault # "none" THEN Unhealthy("json_file", fault, ts)
    ELSE IF \E v \in DOMAIN catalog : ~IsDict(catalog[v])
    THEN Unhealthy("json_file", "AttributeError", ts)
    ELSE [status |-> "healthy", backend |-> "json_file",
          object_count |-> count_objects(catalog), timestamp |-> ts]

\* PostgreSQLBackend.health_check, postgresql_updated.py 688-714
pg_health_check(fault, ts) ==
    IF fault # "none" THEN Unhealthy("postgresql", fault, ts)
    ELSE [status |-> "healthy", backend |-> "postgresql", timestamp |-> ts]

\* MySQLBackend.health_check, mysql.py 43-44
mysql_health_check == [status |-> "not_implemented", backend |-> "mysql"]

backend_health_check(b, files, fault, ts) ==
    IF b = "json_file" THEN json_health_check(load_catalog(files), fault, ts)
    ELSE IF b = "postgresql" THEN pg_health_check(fault, ts)
    ELSE mysql_health_check

\* DBIOManager.health_check, core.py 372-378
DBIOManager_health_check(b, files, fault, ts) ==
    [ret |-> backend_health_check(b, files, fault, ts), exc |-> "none", msg |-> << >>,
     lower |-> "none"]

\* ThreadedConnectionPool.closeall() of psycopg2: a pool that is closed
\* already raises PoolError("connection pool is closed")
pool_closeall(closed) ==
    [closed |-> TRUE, exc |-> IF closed THEN "PoolError" ELSE "none"]

\* backend.close(): BaseBackend.close (base.py 156-158) does nothing for the
\* JSON backend; PostgreSQLBackend.close (postgresql_updated.py 752-759)
\* with no transaction active calls closeall() on self.connection_pool,
\* which stays set after the first close
backend_close(b, closed) ==
    IF b = "postgresql" THEN pool_closeall(closed)
    ELSE [closed |-> closed, exc |-> "none"]

\* DBIOManager.close, core.py 403-408: what backend.close() raises reaches
\* the caller as it is; cache.close() (cache.py 232-239, 266-267) raises
\* nothing
DBIOManager_close(b, closed) ==
    [closed |-> backend_close(b, closed).closed,
     exc |-> backend_close(b, closed).exc,
     msg |-> IF backend_close(b, closed).exc = "none" THEN << >>
             ELSE <<"connection pool is closed">>,
     lower |-> backend_close(b, closed).exc]

\* ------------------------------------------------------ the legacy helpers
\* get_object_info, core.py 312-329: "backend.get_object(...) or {}", and {}
\* when the backend raised
DBIOManager_get_object_info(b, files, tables, v, l, o, fault) ==
    IF fault # "none" THEN EmptyDict
    ELSE IF Truthy(backend_get_object(b, files, tables, v, l, o))
    THEN backend_get_object(b, files, tables, v, l, o)
    ELSE EmptyDict

\* The default of get_file_info, core.py 357-362
DefaultFileInfo ==
    [TYPE |-> "DATASET", RECTYPE |-> "FB", RECLEN |-> 80, ENCODING |-> "utf-8"]

\* The libraries of catalog[volume] that hold the file
LibrariesWith(catalog, volume, name) ==
    {l \in DOMAIN catalog[volume] : In(name, catalog[volume][l])}

\* get_file_info, core.py 350-362: the record of the first library of the
\* volume that holds the name; the default when none does and when the walk
\* raised (363-370)
find_file(catalog, volume, name) ==
    IF ~In(volume, catalog) THEN DefaultFileInfo
    ELSE IF ~IsDict(catalog[volume]) THEN DefaultFileInfo
    ELSE IF LibrariesWith(catalog, volume, name) = {} THEN DefaultFileInfo
    ELSE catalog[volume][CHOOSE l \in LibrariesWith(catalog, volume, name) : TRUE][name]

file_info_from(r, volume, name) ==
    FacOut(r.fs, r.db, r.cache,
           IF r.exc # "none" THEN DefaultFileInfo ELSE find_file(r.ret, volume, name),
           "none", << >>, "none")

\* get_file_info, core.py 345-347: "LIB/FILE" is split and handed to
\* get_object_info, whose result is returned as it is
lib_file_info(b, files, tables, volume, filename, fault) ==
    DBIOManager_get_object_info(b, files, tables, volume, filename[1], filename[2], fault)

\* get_file_info, core.py 331-370.  filename is <<library, name>> for
\* "LIB/FILE" and <<name>> for a plain name.
DBIOManager_get_file_info(c, b, files, tables, store, volume, filename, fault) ==
    IF Len(filename) = 2
    THEN FacOut(files, tables, store,
                lib_file_info(b, files, tables, volume, filename, fault), "none", << >>, "none")
    ELSE file_info_from(DBIOManager_get_catalog_info(c, b, files, tables, store, fault),
                        volume, filename[1])

\* The module-level functions, core.py 412-557: a manager is built from the
\* configuration (which names the backend and no cache), called and closed;
\* whatever is raised ends in the default.
module_get_catalog_info(b, files, tables, fault) ==
    IF manager_exc(b) # "none" THEN EmptyDict
    ELSE IF DBIOManager_get_catalog_info(NoCache, b, files, tables, EmptyDict, fault).exc # "none"
    THEN EmptyDict
    ELSE DBIOManager_get_catalog_info(NoCache, b, files, tables, EmptyDict, fault).ret

module_update_outcome(r) ==
    IF r.exc # "none" THEN [fs |-> r.fs, db |-> r.db, ret |-> "False"]
    ELSE [fs |-> r.fs, db |-> r.db, ret |-> r.ret]

module_update_catalog_info(b, files, tables, v, l, o, object_type, kwargs, ts) ==
    IF manager_exc(b) # "none" THEN [fs |-> files, db |-> tables, ret |-> "False"]
    ELSE module_update_outcome(
            DBIOManager_update_catalog_info(NoCache, b, files, tables, EmptyDict,
                                            v, l, o, object_type, kwargs, ts))

module_get_object_info(b, files, tables, v, l, o, fault) ==
    IF manager_exc(b) # "none" THEN EmptyDict
    ELSE DBIOManager_get_object_info(b, files, tables, v, l, o, fault)

module_get_file_info(b, files, tables, volume, filename, fault) ==
    IF manager_exc(b) # "none" THEN DefaultFileInfo
    ELSE DBIOManager_get_file_info(NoCache, b, files, tables, EmptyDict,
                                   volume, filename, fault).ret

\* CatalogBackendConfig.validate_backend_connection,
\* config/catalog_backend_config.py 181-212: DBIOManager(backend_config),
\* health_check(), close(); a failure of any of them ends in a document
\* with status "error"
validate_backend_connection(b, files, fault, ts) ==
    IF manager_exc(b) # "none"
    THEN [status |-> "error", backend |-> b, error |-> manager_exc(b)]
    ELSE DBIOManager_health_check(b, files, fault, ts).ret

\* What the same call hands back on a manager without a cache
Twin(r) == [ret |-> r.ret, exc |-> r.exc, fs |-> r.fs, db |-> r.db]
NoTwin == [ret |-> PyNone, exc |-> "none", fs |-> EmptyDict, db |-> EmptyDict]

\* The record of a facade call: r is what it handed back, twin what the
\* same call hands back without a cache, before the store it found.
FacCall(op, arg, r, twin, before) ==
    [op |-> op, arg |-> arg, ret |-> r.ret, exc |-> r.exc, msg |-> r.msg,
     lower |-> r.lower, twin |-> twin, before |-> before]

NoFacCall ==
    [op |-> "none", arg |-> << >>, ret |-> PyNone, exc |-> "none", msg |-> << >>,
     lower |-> "none", twin |-> NoTwin, before |-> EmptyDict]

\* A manager: its cache object, whether close() has closed the pool of its
\* backend, and its latest call
NoManager == [cache |-> NoCache, closed |-> FALSE, call |-> NoFacCall]

\* The shared PostgreSQLBackend instance before it is constructed
NoSession == [state |-> "none"]

\* ------------------------------------------ one PostgreSQLBackend, shared
\* The instance as its callers see it: self.current_connection (0 is None),
\* the ThreadedConnectionPool (closed, and the slots checked out), the
\* connections (closed or broken ones, the rows each has written or deleted
\* without a commit yet), the committed rows of aspuser.objects, and what
\* each caller is doing.  A row stands for one object with its volume and
\* library rows.

\* pool_size + max_overflow (postgresql_updated.py 46-51)
MaxConn == 2
Conns == 1..MaxConn
Callers == {"A", "B"}
TableRows == {"V1", "V2"}

IdleCaller == [pc |-> "idle", op |-> "none", row |-> "none", conn |-> 0, outer |-> 0,
               took |-> {}, held |-> {}, errors |-> 0, before |-> 0, alone |-> FALSE]

NoPoolCall ==
    [n |-> 0, caller |-> "none", op |-> "none", arg |-> "none", ret |-> "None",
     exc |-> "none", took |-> {}, kept |-> {}, before |-> 0, alone |-> FALSE,
     owner |-> "none", was_closed |-> FALSE]

\* PostgreSQLBackend.__init__ (23-33) and _init_connection_pool (35-59)
NewSession ==
    [current_connection |-> 0, closed |-> FALSE, used |-> {},
     lost |-> {}, pending |-> [n \in Conns |-> {}], deleted |-> [n \in Conns |-> {}],
     rows |-> {}, owner |-> "none", th |-> [c \in Callers |-> IdleCaller],
     last |-> NoPoolCall, started |-> 0]

\* What an operation hands on: the instance afterwards and what it raised
Out(s, exc) == [s |-> s, exc |-> exc]

\* ThreadedConnectionPool.getconn() of psycopg2: PoolError on a closed pool
\* and on one whose maxconn connections are all checked out
pool_getconn(s) ==
    IF s.closed \/ Conns \ s.used = {}
    THEN [conn |-> 0, exc |-> "PoolError", pooled |-> TRUE]
    ELSE [conn |-> CHOOSE n \in Conns \ s.used : \A m \in Conns \ s.used : n <= m,
          exc |-> "none", pooled |-> TRUE]

\* _get_connection, 61-65: the transaction connection when there is one,
\* whoever asks
get_connection(s) ==
    IF s.current_connection # 0
    THEN [conn |-> s.current_connection, exc |-> "none", pooled |-> FALSE]
    ELSE pool_getconn(s)

\* The instance once the connection r of get_connection is in use
CheckedOut(s, r) ==
    IF r.pooled /\ r.exc = "none" THEN [s EXCEPT !.used = @ \cup {r.conn}] ELSE s

\* ThreadedConnectionPool.putconn(conn) of psycopg2: PoolError on a closed
\* pool and for a connection that is not checked out; a connection with an
\* open transaction is rolled back, a closed one is discarded
pool_putconn(s, conn) ==
    IF s.closed \/ conn \notin s.used THEN Out(s, "PoolError")
    ELSE Out([s EXCEPT !.used = @ \ {conn}, !.lost = @ \ {conn},
                       !.pending[conn] = {}, !.deleted[conn] = {}], "none")

\* _put_connection, 67-71: nothing is returned while a transaction is active
put_connection(s, conn) ==
    IF s.current_connection # 0 THEN Out(s, "none") ELSE pool_putconn(s, conn)

\* COMMIT and ROLLBACK on a connection
Committed(s, conn) ==
    [s EXCEPT !.rows = (@ \ s.deleted[conn]) \cup s.pending[conn],
              !.pending[conn] = {}, !.deleted[conn] = {}]
RolledBack(s, conn) == [s EXCEPT !.pending[conn] = {}, !.deleted[conn] = {}]

\* A statement of connection conn on a row waits while another connection
\* has written or deleted that row without a commit or rollback yet
Locked(s, conn, row) ==
    \E m \in Conns \ {conn} : row \in s.pending[m] \cup s.deleted[m]

\* begin_transaction, 717-724
begin_transaction(s, c) ==
    IF s.current_connection # 0 THEN Out(s, "TransactionError")
    ELSE IF pool_getconn(s).exc # "none" THEN Out(s, pool_getconn(s).exc)
    ELSE Out([CheckedOut(s, pool_getconn(s)) EXCEPT
                 !.current_connection = pool_getconn(s).conn, !.owner = c], "none")

\* The finally block of commit_transaction and rollback_transaction, 733-737
\* and 746-750, after a commit or rollback that went through: autocommit is
\* set, the connection put back, current_connection reset.  putconn raising
\* leaves current_connection set.
transaction_released(r) ==
    IF r.exc # "none" THEN r
    ELSE Out([r.s EXCEPT !.current_connection = 0, !.owner = "none"], "none")

\* commit_transaction, 726-737, and rollback_transaction, 739-750.  When the
\* connection is closed or broken, or the server is lost during the call
\* (fault), commit() or rollback() raises and the connection is closed; the
\* finally block then starts with "self.current_connection.autocommit =
\* True", which raises InterfaceError on a closed connection, so that
\* putconn and the reset of current_connection are not reached.
end_transaction(s, commit, fault) ==
    IF s.current_connection = 0 THEN Out(s, "TransactionError")
    ELSE IF fault # "none" \/ s.current_connection \in s.lost
    THEN Out([RolledBack(s, s.current_connection) EXCEPT
                 !.lost = @ \cup {s.current_connection}], "InterfaceError")
    ELSE transaction_released(
            pool_putconn(IF commit THEN Committed(s, s.current_connection)
                         ELSE RolledBack(s, s.current_connection),
                         s.current_connection))

commit_transaction(s, fault) == end_transaction(s, TRUE, fault)
rollback_transaction(s, fault) == end_transaction(s, FALSE, fault)

\* closeall() on the pool of the instance: see pool_closeall; every
\* connection is closed
pool_closed(s) ==
    Out(IF s.closed THEN s ELSE [s EXCEPT !.closed = TRUE, !.lost = Conns],
        pool_closeall(s.closed).exc)

\* PostgreSQLBackend.close, 752-759: rollback_transaction() when a
\* transaction is active, then closeall() on self.connection_pool, which is
\* set from the constructor on
close_after(r) == IF r.exc # "none" THEN r ELSE pool_closed(r.s)

pg_close(s) ==
    IF s.current_connection # 0 THEN close_after(rollback_transaction(s, "none"))
    ELSE pool_closed(s)

\* health_check, 688-714: the connection is put back on the path without an
\* exception alone; every exception ends in the unhealthy document
health_checked(s, r, fault) ==
    IF r.exc # "none" THEN [s |-> s, ret |-> "unhealthy", took |-> {}]
    ELSE IF fault # "none" \/ r.conn \in s.lost
    THEN [s |-> CheckedOut(s, r), ret |-> "unhealthy",
          took |-> IF r.pooled THEN {r.conn} ELSE {}]
    ELSE [s |-> put_connection(CheckedOut(s, r), r.conn).s,
          ret |-> IF put_connection(CheckedOut(s, r), r.conn).exc = "none"
                  THEN "healthy" ELSE "unhealthy",
          took |-> IF r.pooled THEN {r.conn} ELSE {}]

session_health_check(s, fault) == health_checked(s, get_connection(s), fault)

\* The end of update_object, 469-481, and of import_catalog, 829-844: COMMIT
\* when no transaction is active at that moment, then _put_connection in the
\* finally block.  A COMMIT on a
\* closed connection raises, and so does the ROLLBACK of the except block.
update_finished(s, conn) ==
    IF s.current_connection # 0 THEN Out(s, "none")
    ELSE IF conn \in s.lost
    THEN Out(pool_putconn(s, conn).s,
             IF pool_putconn(s, conn).exc # "none" THEN pool_putconn(s, conn).exc
             ELSE "InterfaceError")
    ELSE pool_putconn(Committed(s, conn), conn)

\* A statement on a closed connection: the except block (474-478) and the
\* finally block of update_object and of import_catalog
statement_failed(s, conn) ==
    Out(put_connection(s, conn).s,
        IF put_connection(s, conn).exc # "none" THEN put_connection(s, conn).exc
        ELSE "InterfaceError")

\* The call of caller c has ended.  took are the connections it took from
\* the pool, held those of them it had not put back before this step, kept
\* those it has not put back at all; before is the
\* transaction connection it came across, alone whether no other call began
\* or went on during it; owner and was_closed are what it found.
Ended(s, c, op, arg, ret, exc, took, held, before, alone, owner, was_closed) ==
    [s EXCEPT !.th[c] = IdleCaller,
              !.last = [n |-> s.last.n + 1, caller |-> c, op |-> op, arg |-> arg,
                        ret |-> ret, exc |-> exc, took |-> took,
                        kept |-> held \cap s.used, before |-> before, alone |-> alone,
                        owner |-> owner, was_closed |-> was_closed]]

\* ------------------------------------------------------- the calls explored
K1 == <<"V1", "L1", "O1">>
K2 == <<"V1", "L1", "O2">>
K3 == <<"V1", "L2", "O1">>

\* object_type and **kwargs of update_catalog_info
FacadeArgs == {<<"PGM", [PGMTYPE |-> "JAVA"]>>, <<"DATASET", EmptyDict>>}

UpdateOp(k, attributes) ==
    [type |-> "update", volume |-> k[1], library |-> k[2], object_name |-> k[3],
     attributes |-> attributes]
DeleteOp(k) ==
    [type |-> "delete", volume |-> k[1], library |-> k[2], object_name |-> k[3]]

\* Batches for bulk_operations: well-formed, and with one entry that is not
\* a mapping among valid entries on other keys.
BatchGood == <<UpdateOp(K1, [TYPE |-> "PGM"]), DeleteOp(K2)>>
BatchOneBad ==
    <<UpdateOp(K2, [TYPE |-> "PGM"]), NotAMapping,
      UpdateOp(K3, [TYPE |-> "DATASET"]), DeleteOp(K1)>>
Batches == {BatchGood, BatchOneBad}

\* An object record of a catalog snapshot
Snap(type) == [TYPE |-> type, CREATED |-> 0, UPDATED |-> 0]

\* Catalogs for import_catalog: well-formed, and with one volume, library or
\* object entry that is not a mapping next to valid records.
ImportGood ==
    [v \in {"V1", "V2"} |->
        IF v = "V1" THEN [l \in {"L1"} |-> [o \in {"O1"} |-> Snap("DATASET")]]
        ELSE [l \in {"L1"} |-> [o \in {"O1"} |-> Snap("PGM")]]]
ImportBadVolume ==
    [v \in {"V1", "V2"} |->
        IF v = "V1" THEN NotAMapping
        ELSE [l \in {"L1"} |-> [o \in {"O1"} |-> Snap("PGM")]]]
ImportBadLibrary ==
    [v \in {"V2"} |->
        [l \in {"L1", "L2"} |->
            IF l = "L1" THEN NotAMapping ELSE [o \in {"O1"} |-> Snap("PGM")]]]
ImportBadObject ==
    [v \in {"V2"} |->
        [l \in {"L1"} |->
            [o \in {"O1", "O2"} |-> IF o = "O1" THEN NotAMapping ELSE Snap("PGM")]]]
ImportData == {ImportGood, ImportBadVolume, ImportBadLibrary, ImportBadObject}

\* ------------------------------------------------------ the specification
NoStats == [errors |-> 0]

\* The record of a call: ret is the boolean returned ("stats" when a counter
\* record is returned, held in stats), exc what the caller saw raised, saves
\* the number of persists a bulk call made, out the catalog a read returned.
Call(op, via, key, arg, merge, ret, exc, stats, saves, out) ==
    [op |-> op, via |-> via, key |-> key, arg |-> arg, merge |-> merge,
     ret |-> ret, exc |-> exc, stats |-> stats, saves |-> saves, out |-> out]

NoCall == Call("none", "none", << >>, EmptyDict, FALSE, "None", "none", NoStats, 0, EmptyDict)

\* The threads that share one JSONFileBackend in the second specification
Threads == {"t1", "t2"}

\* A thread between calls: no arguments, no catalog, no outcome.  pre is the
\* live file as _save_catalog found it, surfaced the live file at the moment
\* _save_catalog raised.
IdleLocal ==
    [key |-> << >>, attributes |-> EmptyDict, catalog |-> EmptyDict,
     outcome |-> "none", pre |-> Absent, surfaced |-> Absent, failed |-> "none"]

\* No read yet.  A read is recorded with the catalog it returned and the
\* catalogs before and after the save in progress, if any.
NoRead == [by |-> "none", out |-> EmptyDict, pre |-> EmptyDict, post |-> EmptyDict]

threadVars == <<pc, local, lock, faults, observed, calls>>

\* The MigrationManager and the HybridBackend, which the manager does not use
migVars == <<mm, backups, mig, hyb>>

\* The manager of the facade specification and the shared PostgreSQLBackend
\* instance of the connection specification
sessVars == <<fac, pg>>

\* The caller is single-threaded: after a call that does not return it
\* makes no further call.
Running == last.exc # "hang"

Init ==
    /\ backend \in {"json_file", "postgresql"}
    /\ fs = json_init([live |-> Absent, backup |-> Absent, tmp |-> Absent])
    /\ db = EmptyDb
    /\ cache = EmptyDict
    /\ now = 0
    /\ last = NoCall
    /\ pc = [t \in Threads |-> "idle"]
    /\ local = [t \in Threads |-> IdleLocal]
    /\ lock = "none"
    /\ faults = 0
    /\ observed = NoRead
    /\ calls = 0
    /\ mm = NoMigration
    /\ backups = EmptyDict
    /\ mig = NoMigCall
    /\ hyb = NoHybrid
    /\ fac = NoManager
    /\ pg = NoSession

\* backend.update_object(k, payload), called directly on the backend
UpdateObject ==
    /\ Running /\ now < MaxClock
    /\ \E k \in Keys, payload \in Payloads :
       \E r \in {backend_update_object(backend, fs, db, k[1], k[2], k[3], payload, now + 1)} :
          /\ fs' = r.fs
          /\ db' = r.db
          /\ last' = Call("update", "backend", k, payload, FALSE, r.ret, r.exc,
                          NoStats, 0, EmptyDict)
    /\ now' = now + 1
    /\ UNCHANGED <<backend, cache>>
    /\ UNCHANGED threadVars
    /\ UNCHANGED sessVars
    /\ UNCHANGED migVars

\* manager.update_catalog_info(k, object_type, **kwargs)
UpdateCatalogInfo ==
    /\ Running /\ now < MaxClock
    /\ \E k \in Keys, a \in FacadeArgs :
       \E r \in {update_catalog_info(backend, fs, db, cache, k[1], k[2], k[3],
                                     a[1], a[2], now + 1)} :
          /\ fs' = r.fs
          /\ db' = r.db
          /\ cache' = r.cache
          /\ last' = Call("update", "facade", k, a[2], FALSE, r.ret, r.exc,
                          NoStats, 0, EmptyDict)
    /\ now' = now + 1
    /\ UNCHANGED backend
    /\ UNCHANGED threadVars
    /\ UNCHANGED sessVars
    /\ UNCHANGED migVars

\* backend.delete_object(k), called directly on the backend
DeleteObject ==
    /\ Running /\ now < MaxClock
    /\ \E k \in Keys :
       \E r \in {backend_delete_object(backend, fs, db, k[1], k[2], k[3])} :
          /\ fs' = r.fs
          /\ db' = r.db
          /\ last' = Call("delete", "backend", k, EmptyDict, FALSE, r.ret, r.exc,
                          NoStats, 0, EmptyDict)
    /\ now' = now + 1
    /\ UNCHANGED <<backend, cache>>
    /\ UNCHANGED threadVars
    /\ UNCHANGED sessVars
    /\ UNCHANGED migVars

\* manager.delete_catalog_entry(k)
DeleteCatalogEntry ==
    /\ Running /\ now < MaxClock
    /\ \E k \in Keys :
       \E r \in {delete_catalog_entry(backend, fs, db, cache, k[1], k[2], k[3])} :
          /\ fs' = r.fs
          /\ db' = r.db
          /\ cache' = r.cache
          /\ last' = Call("delete", "facade", k, EmptyDict, FALSE, r.ret, r.exc,
                          NoStats, 0, EmptyDict)
    /\ now' = now + 1
    /\ UNCHANGED backend
    /\ UNCHANGED threadVars
    /\ UNCHANGED sessVars
    /\ UNCHANGED migVars

\* manager.bulk_operations(batch)
BulkOperations ==
    /\ Running /\ now < MaxClock
    /\ \E batch \in Batches :
       \E r \in {bulk_operations(backend, fs, db, cache, batch, now + 1)} :
          /\ fs' = r.fs
          /\ db' = r.db
          /\ cache' = r.cache
          /\ last' = Call("bulk", "facade", << >>, batch, FALSE, "stats", r.exc,
                          r.ret, r.saves, EmptyDict)
    /\ now' = now + 1
    /\ UNCHANGED backend
    /\ UNCHANGED threadVars
    /\ UNCHANGED sessVars
    /\ UNCHANGED migVars

\* manager.import_catalog(data, merge)
ImportCatalog ==
    /\ Running /\ now < MaxClock
    /\ \E data \in ImportData, merge \in BOOLEAN :
       \E r \in {import_catalog(backend, fs, db, cache, data, merge, now + 1)} :
          /\ fs' = r.fs
          /\ db' = r.db
          /\ cache' = r.cache
          /\ last' = Call("import", "facade", << >>, data, merge, "stats", r.exc,
                          r.ret, 0, EmptyDict)
    /\ now' = now + 1
    /\ UNCHANGED backend
    /\ UNCHANGED threadVars
    /\ UNCHANGED sessVars
    /\ UNCHANGED migVars

\* manager.get_catalog_info()
GetCatalogInfo ==
    /\ Running
    /\ \E r \in {get_catalog_info(backend, fs, db, cache)} :
          /\ cache' = r.cache
          /\ last' = Call("get_catalog_info", "facade", << >>, EmptyDict, FALSE,
                          "None", "none", NoStats, 0, r.ret)
    /\ UNCHANGED <<backend, fs, db, now>>
    /\ UNCHANGED threadVars
    /\ UNCHANGED sessVars
    /\ UNCHANGED migVars

vars == <<backend, fs, cache, now, db, last, pc, local, lock, faults, observed, calls,
          mm, backups, mig, hyb, fac, pg>>

Next ==
    \/ UpdateObject
    \/ UpdateCatalogInfo
    \/ DeleteObject
    \/ DeleteCatalogEntry
    \/ BulkOperations
    \/ ImportCatalog
    \/ GetCatalogInfo

Spec == Init /\ [][Next]_vars

\* --------------------------- second specification: threads on one backend
\* Two threads of one process call update_object on the same JSONFileBackend
\* while a reader in another process opens the same file.  _load_catalog and
\* _save_catalog each hold self.lock from entry to exit; update_object takes
\* no lock of its own.  The steps of _save_catalog are separate actions, and
\* the write of the .tmp file and its rename may fail.
MaxCalls == 3
MaxFaults == 1

ThreadKeys == {K1, K2}
ThreadPayloads == {[TYPE |-> "PGM"], [TYPE |-> "DATASET"]}

InitFile ==
    /\ backend = "json_file"
    /\ fs = json_init([live |-> Absent, backup |-> Absent, tmp |-> Absent])
    /\ db = EmptyDb
    /\ cache = EmptyDict
    /\ now = 0
    /\ last = NoCall
    /\ pc = [t \in Threads |-> "idle"]
    /\ local = [t \in Threads |-> IdleLocal]
    /\ lock = "none"
    /\ faults = 0
    /\ observed = NoRead
    /\ calls = 0
    /\ mm = NoMigration
    /\ backups = EmptyDict
    /\ mig = NoMigCall
    /\ hyb = NoHybrid
    /\ fac = NoManager
    /\ pg = NoSession

restVars == <<backend, cache, now, db, last, mm, backups, mig, hyb>>

\* update_object, lines 110-132: _load_catalog under the lock, then the
\* update of the thread's own copy of the catalog.
StartUpdate ==
    /\ calls < MaxCalls
    /\ lock = "none"
    /\ \E t \in Threads, k \in ThreadKeys, payload \in ThreadPayloads :
          /\ pc[t] = "idle"
          /\ pc' = [pc EXCEPT ![t] = "save"]
          /\ local' = [local EXCEPT ![t] =
                [IdleLocal EXCEPT !.key = k, !.attributes = payload,
                    !.catalog = json_apply_update(load_catalog(fs), k[1], k[2], k[3],
                                                  payload).catalog]]
    /\ calls' = calls + 1
    /\ UNCHANGED <<fs, lock, faults, observed>>
    /\ UNCHANGED restVars
    /\ UNCHANGED sessVars

\* _save_catalog, lines 61-65: the lock is taken and the live file renamed
\* to the backup.
SaveBackup ==
    /\ lock = "none"
    /\ \E t \in Threads :
          /\ pc[t] = "save"
          /\ lock' = t
          /\ pc' = [pc EXCEPT ![t] = "write_tmp"]
          /\ local' = [local EXCEPT ![t].pre = fs.live]
    /\ fs' = SaveBackupStep(fs)
    /\ UNCHANGED <<faults, observed, calls>>
    /\ UNCHANGED restVars
    /\ UNCHANGED sessVars

\* _save_catalog, lines 68-76: the dump to the .tmp file
SaveWriteTmp ==
    /\ \E t \in Threads :
          /\ pc[t] = "write_tmp"
          /\ pc' = [pc EXCEPT ![t] = "rename"]
          /\ fs' = SaveWriteTmpStep(fs, local[t].catalog)
    /\ UNCHANGED <<local, lock, faults, observed, calls>>
    /\ UNCHANGED restVars
    /\ UNCHANGED sessVars

\* The dump raises part way: the .tmp file is left unfinished.
FailWriteTmp ==
    /\ faults < MaxFaults
    /\ \E t \in Threads :
          /\ pc[t] = "write_tmp"
          /\ pc' = [pc EXCEPT ![t] = "restore"]
          /\ local' = [local EXCEPT ![t].failed = "write_tmp"]
    /\ fs' = [fs EXCEPT !.tmp = Partial]
    /\ faults' = faults + 1
    /\ UNCHANGED <<lock, observed, calls>>
    /\ UNCHANGED restVars
    /\ UNCHANGED sessVars

\* _save_catalog, line 79: the .tmp file is renamed over the live file
SaveRename ==
    /\ \E t \in Threads :
          /\ pc[t] = "rename"
          /\ pc' = [pc EXCEPT ![t] = "remove_backup"]
    /\ fs' = SaveRenameStep(fs)
    /\ UNCHANGED <<local, lock, faults, observed, calls>>
    /\ UNCHANGED restVars
    /\ UNCHANGED sessVars

\* os.rename raises: no file has changed.
FailRename ==
    /\ faults < MaxFaults
    /\ \E t \in Threads :
          /\ pc[t] = "rename"
          /\ pc' = [pc EXCEPT ![t] = "restore"]
          /\ local' = [local EXCEPT ![t].failed = "rename"]
    /\ faults' = faults + 1
    /\ UNCHANGED <<fs, lock, observed, calls>>
    /\ UNCHANGED restVars
    /\ UNCHANGED sessVars

\* _save_catalog, lines 82-85: the backup is removed, the lock released and
\* True returned; update_object returns it.
SaveRemoveBackup ==
    /\ \E t \in Threads :
          /\ pc[t] = "remove_backup"
          /\ pc' = [pc EXCEPT ![t] = "idle"]
          /\ local' = [local EXCEPT ![t].outcome = "returned"]
    /\ fs' = SaveRemoveBackupStep(fs)
    /\ lock' = "none"
    /\ UNCHANGED <<faults, observed, calls>>
    /\ UNCHANGED restVars
    /\ UNCHANGED sessVars

\* _save_catalog, lines 87-92: the except branch renames the backup back,
\* raises DBIOException and releases the lock.
SaveRestore ==
    /\ \E t \in Threads :
          /\ pc[t] = "restore"
          /\ pc' = [pc EXCEPT ![t] = "idle"]
          /\ local' = [local EXCEPT ![t].outcome = "raised",
                                    ![t].surfaced = SaveRestoreStep(fs).live]
    /\ fs' = SaveRestoreStep(fs)
    /\ lock' = "none"
    /\ UNCHANGED <<faults, observed, calls>>
    /\ UNCHANGED restVars
    /\ UNCHANGED sessVars

\* The catalog the save in progress started from, and the one it is writing.
PreOfSave(files, holder, locals) ==
    IF holder = "none" THEN load_catalog(files) ELSE locals[holder].pre.data
PostOfSave(files, holder, locals) ==
    IF holder = "none" THEN load_catalog(files) ELSE locals[holder].catalog

\* get_all_objects by a thread of the process: _load_catalog takes self.lock.
ThreadRead ==
    /\ lock = "none"
    /\ \E t \in Threads :
          /\ pc[t] = "idle"
          /\ observed' = [by |-> t, out |-> load_catalog(fs),
                          pre |-> PreOfSave(fs, lock, local),
                          post |-> PostOfSave(fs, lock, local)]
    /\ UNCHANGED <<fs, pc, local, lock, faults, calls>>
    /\ UNCHANGED restVars
    /\ UNCHANGED sessVars

\* _load_catalog in another process on the same file: it shares no
\* threading lock with the writer, and its LOCK_SH is on the live file while
\* the writer's LOCK_EX is on the .tmp file.
ProcessRead ==
    /\ observed' = [by |-> "process", out |-> load_catalog(fs),
                    pre |-> PreOfSave(fs, lock, local),
                    post |-> PostOfSave(fs, lock, local)]
    /\ UNCHANGED <<fs, pc, local, lock, faults, calls>>
    /\ UNCHANGED restVars
    /\ UNCHANGED sessVars

NextFile ==
    \/ StartUpdate
    \/ SaveBackup
    \/ SaveWriteTmp
    \/ FailWriteTmp
    \/ SaveRename
    \/ FailRename
    \/ SaveRemoveBackup
    \/ SaveRestore
    \/ ThreadRead
    \/ ProcessRead

SpecFile == InitFile /\ [][NextFile]_vars

\* ------------------ third specification: a migration between two backends
\* One MigrationManager, and the managers of its two configurations through
\* which the callers write to either backend; the MigrationManager migrates,
\* rolls back, synchronizes and validates.
MaxSteps == 3

K4 == <<"V2", "L1", "O1">>

\* The writes that fill the two backends: a key with object_type and
\* **kwargs.  K1 is written with either type; K2, K3 and K4 stand next to it
\* in its library, its volume and the catalog.
MigWrites ==
    {<<K1, "PGM", [PGMTYPE |-> "JAVA"]>>, <<K1, "DATASET", EmptyDict>>,
     <<K2, "DATASET", EmptyDict>>, <<K3, "DATASET", EmptyDict>>,
     <<K4, "PGM", [PGMTYPE |-> "JAVA"]>>}

\* The keys written through the HybridBackend
HybridKeys == {K1, K4}

\* The pairs of source and target backend explored
Configs ==
    {[source |-> "json_file", target |-> "postgresql"],
     [source |-> "postgresql", target |-> "json_file"],
     [source |-> "json_file", target |-> "mysql"]}

\* The write_backends a HybridBackend can be given: managers that could be
\* constructed
WriteLists(config) ==
    IF manager_exc(config.target) # "none" THEN {<<"source">>}
    ELSE {<<"source", "target">>, <<"target", "source">>}

Directions == {"source_to_target", "target_to_source"}

\* The caller is single-threaded: after a call that does not return it
\* makes no further call.
MigRunning == mig.exc # "hang"

InitMigration ==
    /\ backend = "json_file"
    /\ fs = json_init([live |-> Absent, backup |-> Absent, tmp |-> Absent])
    /\ db = EmptyDb
    /\ cache = EmptyDict
    /\ now = 0
    /\ last = NoCall
    /\ pc = [t \in Threads |-> "idle"]
    /\ local = [t \in Threads |-> IdleLocal]
    /\ lock = "none"
    /\ faults = 0
    /\ observed = NoRead
    /\ calls = 0
    /\ mm \in Configs
    /\ backups = EmptyDict
    /\ mig = NoMigCall
    /\ hyb = NoHybrid
    /\ fac = NoManager
    /\ pg = NoSession

managerVars == <<backend, cache, last>>

\* manager.update_catalog_info(k, object_type, **kwargs) on the manager of
\* the source or of the target configuration
ManagerUpdate ==
    /\ MigRunning /\ now < MaxSteps
    /\ \E side \in {"source", "target"}, w \in MigWrites :
          /\ manager_exc(mm[side]) = "none"
          /\ \E r \in {update_catalog_info(mm[side], fs, db, EmptyDict, w[1][1], w[1][2],
                                           w[1][3], w[2], w[3], now + 1)} :
                /\ fs' = r.fs
                /\ db' = r.db
    /\ now' = now + 1
    /\ UNCHANGED <<mm, backups, mig, hyb>>
    /\ UNCHANGED managerVars
    /\ UNCHANGED threadVars
    /\ UNCHANGED sessVars

\* backend.update_object(K1, {}) on the backend of the source manager: a
\* record that names no TYPE
BackendUpdate ==
    /\ MigRunning /\ now < MaxSteps
    /\ \E r \in {backend_update_object(mm.source, fs, db, K1[1], K1[2], K1[3],
                                       EmptyDict, now + 1)} :
          /\ fs' = r.fs
          /\ db' = r.db
    /\ now' = now + 1
    /\ UNCHANGED <<mm, backups, mig, hyb>>
    /\ UNCHANGED managerVars
    /\ UNCHANGED threadVars
    /\ UNCHANGED sessVars

\* migration.migrate_catalog(backup_before, validate_after, dry_run)
MigrateCatalog ==
    /\ MigRunning /\ now < MaxSteps
    /\ \E backup_before \in BOOLEAN, validate_after \in BOOLEAN, dry_run \in BOOLEAN :
       \E r \in {migrate_catalog(mm.source, mm.target, fs, db, backups, backup_before,
                                 validate_after, dry_run, now + 1)} :
          /\ fs' = r.fs
          /\ db' = r.db
          /\ backups' = r.backups
          /\ mig' = MigCall("migrate", now + 1, dry_run, backup_before, validate_after, << >>, r)
    /\ now' = now + 1
    /\ UNCHANGED <<mm, hyb>>
    /\ UNCHANGED managerVars
    /\ UNCHANGED threadVars
    /\ UNCHANGED sessVars

\* migration.rollback_migration(backup_path), on a file of the backup
\* directory or on a path that names no file
RollbackMigration ==
    /\ MigRunning /\ now < MaxSteps
    /\ \E backup_path \in DOMAIN backups \cup {<<"missing">>} :
       \E r \in {rollback_migration(mm.target, fs, db, backups, backup_path, now + 1)} :
          /\ fs' = r.fs
          /\ db' = r.db
          /\ mig' = MigCall("rollback", now + 1, FALSE, FALSE, FALSE, backup_path, r)
    /\ now' = now + 1
    /\ UNCHANGED <<mm, backups, hyb>>
    /\ UNCHANGED managerVars
    /\ UNCHANGED threadVars
    /\ UNCHANGED sessVars

\* migration.sync_backends(direction)
SyncBackends ==
    /\ MigRunning /\ now < MaxSteps
    /\ \E direction \in Directions :
       \E r \in {sync_backends(mm.source, mm.target, fs, db, backups, direction,
                               now + 1)} :
          /\ fs' = r.fs
          /\ db' = r.db
          /\ backups' = r.backups
          /\ mig' = MigCall("sync", now + 1, FALSE, FALSE, FALSE, <<direction>>, r)
    /\ now' = now + 1
    /\ UNCHANGED <<mm, hyb>>
    /\ UNCHANGED managerVars
    /\ UNCHANGED threadVars
    /\ UNCHANGED sessVars

\* migration._validate_migration(source_manager, target_manager) on the
\* managers of the two configurations
ValidateMigration ==
    /\ MigRunning
    /\ manager_exc(mm.source) = "none" /\ manager_exc(mm.target) = "none"
    /\ mig' = MigCall("validate", now, FALSE, FALSE, TRUE, << >>,
                  MigOutcome(fs, db, backups, "none", {"source", "target"}, FALSE,
                      MigStats(0, << >>, PyList(<< >>),
                          validate_migration(manager_catalog(mm.source, fs, db),
                                             manager_catalog(mm.target, fs, db)),
                          "unset")))
    /\ UNCHANGED <<fs, db, now, mm, backups, hyb>>
    /\ UNCHANGED managerVars
    /\ UNCHANGED threadVars
    /\ UNCHANGED sessVars

NextMigration ==
    \/ ManagerUpdate
    \/ BackendUpdate
    \/ MigrateCatalog
    \/ RollbackMigration
    \/ SyncBackends
    \/ ValidateMigration

SpecMigration == InitMigration /\ [][NextMigration]_vars

\* ------------------------- fourth specification: writes through a hybrid
\* One HybridBackend over the managers of two configurations, each of which
\* may fail to write.
InitHybrid ==
    /\ backend = "json_file"
    /\ fs = json_init([live |-> Absent, backup |-> Absent, tmp |-> Absent])
    /\ db = EmptyDb
    /\ cache = EmptyDict
    /\ now = 0
    /\ last = NoCall
    /\ pc = [t \in Threads |-> "idle"]
    /\ local = [t \in Threads |-> IdleLocal]
    /\ lock = "none"
    /\ faults = 0
    /\ observed = NoRead
    /\ calls = 0
    /\ mm \in Configs
    /\ backups = EmptyDict
    /\ mig = NoMigCall
    /\ \E write_backends \in WriteLists(mm) :
          hyb = [NoHybrid EXCEPT !.write_backends = write_backends]
    /\ fac = NoManager
    /\ pg = NoSession

\* hybrid.update_catalog_info(k, object_type, **kwargs), with the write
\* managers in failing unable to write
HybridUpdateCatalogInfo ==
    /\ now < MaxSteps
    /\ \E k \in HybridKeys, a \in FacadeArgs, failing \in SUBSET {"source", "target"} :
          /\ \A name \in failing : \E i \in DOMAIN hyb.write_backends :
                hyb.write_backends[i] = name
          /\ \E r \in {hybrid_update_catalog_info(fs, db, hyb.write_errors,
                           hyb.write_backends, mm, k, a, now + 1, failing)} :
                /\ fs' = r.fs
                /\ db' = r.db
                /\ hyb' = [hyb EXCEPT !.write_errors = r.write_errors,
                              !.ret = IF r.success THEN "True" ELSE "False",
                              !.attempted = r.attempted, !.failing = failing,
                              !.before = hyb.write_errors,
                              !.key = k, !.object_type = a[1]]
    /\ now' = now + 1
    /\ UNCHANGED <<mm, backups, mig>>
    /\ UNCHANGED managerVars
    /\ UNCHANGED threadVars
    /\ UNCHANGED sessVars

\* hybrid.get_write_errors(), lines 324-326
GetWriteErrors ==
    /\ hyb' = [hyb EXCEPT !.got = hyb.write_errors]
    /\ UNCHANGED <<fs, db, now, mm, backups, mig>>
    /\ UNCHANGED managerVars
    /\ UNCHANGED threadVars
    /\ UNCHANGED sessVars

NextHybrid ==
    \/ HybridUpdateCatalogInfo
    \/ GetWriteErrors

SpecHybrid == InitHybrid /\ [][NextHybrid]_vars

\* ------------------------------------- the specification of the facade
\* One DBIOManager over either backend, with each kind of cache object, used
\* by one caller.  Every call advances the clock.

\* The number of calls of one behaviour
MaxOps == 3

FacKeys == {K1, K4}
CacheObjects == {RedisCache, FailingCache, DisabledCache, NullCache}
Filters == {PyNone, [object_type |-> "PGM"], [created_after |-> [datetime |-> 0]]}
FileNames == {<<"O1">>, <<"O2">>, <<"L1", "O1">>, <<"L1", "O2">>}

\* The failure that can hit a read of the backend
ReadFaults(b) ==
    IF b = "postgresql" THEN {"none", "OperationalError"}
    ELSE IF b = "json_file" THEN {"none", "PermissionError"}
    ELSE {"none"}

InitManager(objects) ==
    /\ backend \in {"json_file", "postgresql"}
    /\ fs = json_init([live |-> Absent, backup |-> Absent, tmp |-> Absent])
    /\ db = EmptyDb
    /\ cache = EmptyDict
    /\ now = 0
    /\ last = NoCall
    /\ pc = [t \in Threads |-> "idle"]
    /\ local = [t \in Threads |-> IdleLocal]
    /\ lock = "none"
    /\ faults = 0
    /\ observed = NoRead
    /\ calls = 0
    /\ mm = NoMigration
    /\ backups = EmptyDict
    /\ mig = NoMigCall
    /\ hyb = NoHybrid
    /\ \E c \in objects : fac = [NoManager EXCEPT !.cache = c]
    /\ pg = NoSession

InitFacade == InitManager(CacheObjects)

facadeFrame == <<backend, last, pc, local, lock, faults, observed, calls,
                 mm, backups, mig, hyb, pg>>

\* The caller makes a next call once the latest one returned or raised; it
\* uses the manager while it is open.
Reading == fac.call.exc # "hang"
Open == Reading /\ ~fac.closed

\* A call that counts against MaxOps advances the clock and stamps with the
\* new time; any other reads the clock.
Tick(counted) ==
    IF counted THEN now < MaxOps /\ now' = now + 1 ELSE UNCHANGED now
Stamp(counted) == IF counted THEN now + 1 ELSE now

\* manager.update_catalog_info(k, object_type, **kwargs)
FacUpdateCatalogInfo ==
    /\ Open /\ Tick(TRUE)
    /\ \E k \in FacKeys, a \in {<<"PGM", [PGMTYPE |-> "JAVA"]>>} :
       \E r \in {DBIOManager_update_catalog_info(fac.cache, backend, fs, db, cache,
                                                 k[1], k[2], k[3], a[1], a[2], now + 1)},
          t \in {DBIOManager_update_catalog_info(NoCache, backend, fs, db, EmptyDict,
                                                 k[1], k[2], k[3], a[1], a[2], now + 1)} :
          /\ fs' = r.fs
          /\ db' = r.db
          /\ cache' = r.cache
          /\ fac' = [fac EXCEPT !.call =
                        FacCall("update_catalog_info", <<k, a>>, r, Twin(t), cache)]
    /\ UNCHANGED facadeFrame

\* manager.delete_catalog_entry(k)
FacDeleteCatalogEntry ==
    /\ Open /\ Tick(TRUE)
    /\ \E k \in FacKeys :
       \E r \in {DBIOManager_delete_catalog_entry(fac.cache, backend, fs, db, cache,
                                                  k[1], k[2], k[3])},
          t \in {DBIOManager_delete_catalog_entry(NoCache, backend, fs, db, EmptyDict,
                                                  k[1], k[2], k[3])} :
          /\ fs' = r.fs
          /\ db' = r.db
          /\ cache' = r.cache
          /\ fac' = [fac EXCEPT !.call =
                        FacCall("delete_catalog_entry", k, r, Twin(t), cache)]
    /\ UNCHANGED facadeFrame

\* manager.bulk_operations(batch)
FacBulkOperations ==
    /\ Open /\ Tick(TRUE)
    /\ \E batch \in {BatchGood} :
       \E r \in {DBIOManager_bulk_operations(fac.cache, backend, fs, db, cache,
                                             batch, now + 1)},
          t \in {DBIOManager_bulk_operations(NoCache, backend, fs, db, EmptyDict,
                                             batch, now + 1)} :
          /\ fs' = r.fs
          /\ db' = r.db
          /\ cache' = r.cache
          /\ fac' = [fac EXCEPT !.call =
                        FacCall("bulk_operations", batch, r, Twin(t), cache)]
    /\ UNCHANGED facadeFrame

\* manager.import_catalog(data, merge)
FacImportCatalog ==
    /\ Open /\ Tick(TRUE)
    /\ \E data \in {ImportGood}, merge \in BOOLEAN :
       \E r \in {DBIOManager_import_catalog(fac.cache, backend, fs, db, cache,
                                            data, merge, now + 1)},
          t \in {DBIOManager_import_catalog(NoCache, backend, fs, db, EmptyDict,
                                            data, merge, now + 1)} :
          /\ fs' = r.fs
          /\ db' = r.db
          /\ cache' = r.cache
          /\ fac' = [fac EXCEPT !.call =
                        FacCall("import_catalog", <<data, merge>>, r, Twin(t), cache)]
    /\ UNCHANGED facadeFrame

\* manager.get_catalog_info()
FacGetCatalogInfo(read_faults, counted) ==
    /\ Open /\ Tick(counted)
    /\ \E fault \in read_faults :
       \E r \in {DBIOManager_get_catalog_info(fac.cache, backend, fs, db, cache, fault)},
          t \in {DBIOManager_get_catalog_info(NoCache, backend, fs, db, EmptyDict, fault)} :
          /\ cache' = r.cache
          /\ fac' = [fac EXCEPT !.call =
                        FacCall("get_catalog_info", fault, r, Twin(t), cache)]
    /\ UNCHANGED <<fs, db>>
    /\ UNCHANGED facadeFrame

\* manager.query_objects(filters)
FacQueryObjects(filter_set, read_faults, counted) ==
    /\ Open /\ Tick(counted)
    /\ \E filters \in filter_set, fault \in read_faults :
       \E r \in {DBIOManager_query_objects(fac.cache, backend, fs, db, cache,
                                           filters, fault)},
          t \in {DBIOManager_query_objects(NoCache, backend, fs, db, EmptyDict,
                                           filters, fault)} :
          /\ cache' = r.cache
          /\ fac' = [fac EXCEPT !.call =
                        FacCall("query_objects", <<filters, fault>>, r, Twin(t), cache)]
    /\ UNCHANGED <<fs, db>>
    /\ UNCHANGED facadeFrame

\* manager.get_statistics()
FacGetStatistics ==
    /\ Open /\ Tick(TRUE)
    /\ \E fault \in ReadFaults(backend) :
       \E r \in {DBIOManager_get_statistics(fac.cache, backend, fs, db, cache,
                                            now + 1, fault)},
          t \in {DBIOManager_get_statistics(NoCache, backend, fs, db, EmptyDict,
                                            now + 1, fault)} :
          /\ cache' = r.cache
          /\ fac' = [fac EXCEPT !.call =
                        FacCall("get_statistics", fault, r, Twin(t), cache)]
    /\ UNCHANGED <<fs, db>>
    /\ UNCHANGED facadeFrame

\* manager.get_file_info("V1", filename)
FacGetFileInfo(names, read_faults, counted) ==
    /\ Open /\ Tick(counted)
    /\ \E filename \in names, fault \in read_faults :
       \E r \in {DBIOManager_get_file_info(fac.cache, backend, fs, db, cache,
                                           "V1", filename, fault)},
          t \in {DBIOManager_get_file_info(NoCache, backend, fs, db, EmptyDict,
                                           "V1", filename, fault)} :
          /\ cache' = r.cache
          /\ fac' = [fac EXCEPT !.call =
                        FacCall("get_file_info", <<"V1", filename, fault>>, r, Twin(t), cache)]
    /\ UNCHANGED <<fs, db>>
    /\ UNCHANGED facadeFrame

NextFacade ==
    \/ FacUpdateCatalogInfo
    \/ FacDeleteCatalogEntry
    \/ FacBulkOperations
    \/ FacImportCatalog
    \/ FacGetCatalogInfo({"none"}, TRUE)
    \/ FacQueryObjects({PyNone, [object_type |-> "PGM"]}, {"none"}, TRUE)
    \/ FacGetStatistics
    \/ FacGetFileInfo({<<"O1">>}, {"none"}, TRUE)

SpecFacade == InitFacade /\ [][NextFacade]_vars

\* ---------------------- the specification of the helpers and of close()
\* The manager without a cache, its legacy helpers, health_check
\* and close, the module-level functions and validate_backend_connection.
\* A failure below the facade can hit any read.  The writes count against
\* MaxOps; the reads take their timestamp from the clock.

BackendNames == {"json_file", "postgresql", "mysql"}

InitHelpers == InitManager({NoCache})

\* manager.get_object_info(k)
FacGetObjectInfo ==
    /\ Open
    /\ \E k \in FacKeys, fault \in ReadFaults(backend) :
          fac' = [fac EXCEPT !.call =
                     [NoFacCall EXCEPT
                        !.op = "get_object_info", !.arg = <<k, fault>>,
                        !.ret = DBIOManager_get_object_info(backend, fs, db,
                                                            k[1], k[2], k[3], fault),
                        !.lower = fault]]
    /\ UNCHANGED <<fs, db, cache, now>>
    /\ UNCHANGED facadeFrame

\* manager.health_check()
FacHealthCheck ==
    /\ Open
    /\ \E fault \in ReadFaults(backend) :
       \E r \in {DBIOManager_health_check(backend, fs, fault, now)} :
          fac' = [fac EXCEPT !.call =
                     FacCall("health_check", fault, r, NoTwin, EmptyDict)]
    /\ UNCHANGED <<fs, db, cache, now>>
    /\ UNCHANGED facadeFrame

\* manager.close(), on an open manager and on a closed one
FacClose ==
    /\ Reading
    /\ \E r \in {DBIOManager_close(backend, fac.closed)} :
          fac' = [closed |-> r.closed \/ backend = "json_file", cache |-> fac.cache,
                  call |-> [NoFacCall EXCEPT
                              !.op = "close", !.arg = fac.closed, !.exc = r.exc,
                              !.msg = r.msg, !.lower = r.lower]]
    /\ UNCHANGED <<fs, db, cache, now>>
    /\ UNCHANGED facadeFrame

\* The module-level get_catalog_info(config), get_object_info(K1, config)
\* and get_file_info("V1", "L1/O1" or "O1", config)
ModuleRead ==
    /\ Reading
    /\ \E b \in BackendNames : \E fault \in ReadFaults(b) :
       \E call \in {
            <<"module.get_catalog_info", module_get_catalog_info(b, fs, db, fault)>>,
            <<"module.get_object_info",
              module_get_object_info(b, fs, db, "V1", "L1", "O1", fault)>>,
            <<"module.get_file_info",
              module_get_file_info(b, fs, db, "V1", <<"L1", "O1">>, fault)>>,
            <<"module.get_file_info",
              module_get_file_info(b, fs, db, "V1", <<"O1">>, fault)>>} :
          fac' = [fac EXCEPT !.call =
                     [NoFacCall EXCEPT !.op = call[1], !.arg = <<b, fault>>,
                                       !.ret = call[2], !.lower = fault]]
    /\ UNCHANGED <<fs, db, cache, now>>
    /\ UNCHANGED facadeFrame

\* The module-level update_catalog_info(k, object_type, config, **kwargs)
ModuleUpdateCatalogInfo ==
    /\ Reading /\ Tick(TRUE)
    /\ \E b \in BackendNames, k \in {K1}, a \in {<<"DATASET", EmptyDict>>} :
       \E r \in {module_update_catalog_info(b, fs, db, k[1], k[2], k[3],
                                            a[1], a[2], now + 1)} :
          /\ fs' = r.fs
          /\ db' = r.db
          /\ fac' = [fac EXCEPT !.call =
                        [NoFacCall EXCEPT !.op = "module.update_catalog_info",
                                          !.arg = <<b, k, a>>, !.ret = r.ret]]
    /\ UNCHANGED cache
    /\ UNCHANGED facadeFrame

\* DBIOManager(config).health_check() for a configuration naming backend b:
\* the constructor (core.py 32-59) instantiates the backend class first
NewManagerHealthCheck ==
    /\ Reading
    /\ \E b \in BackendNames : \E fault \in ReadFaults(b) :
          fac' = [fac EXCEPT !.call =
                     [NoFacCall EXCEPT
                        !.op = "DBIOManager(config).health_check", !.arg = b,
                        !.exc = manager_exc(b),
                        !.ret = IF manager_exc(b) # "none" THEN PyNone
                                ELSE DBIOManager_health_check(b, fs, fault, now).ret,
                        !.lower = fault]]
    /\ UNCHANGED <<fs, db, cache, now>>
    /\ UNCHANGED facadeFrame

\* config.validate_backend_connection(backend_name)
ValidateBackendConnection ==
    /\ Reading
    /\ \E b \in BackendNames : \E fault \in ReadFaults(b) :
          fac' = [fac EXCEPT !.call =
                     [NoFacCall EXCEPT
                        !.op = "validate_backend_connection", !.arg = b,
                        !.ret = validate_backend_connection(b, fs, fault, now),
                        !.lower = fault]]
    /\ UNCHANGED <<fs, db, cache, now>>
    /\ UNCHANGED facadeFrame

NextHelpers ==
    \/ FacUpdateCatalogInfo
    \/ FacGetCatalogInfo(ReadFaults(backend), FALSE)
    \/ FacQueryObjects(Filters, ReadFaults(backend), FALSE)
    \/ FacGetFileInfo(FileNames, ReadFaults(backend), FALSE)
    \/ FacGetObjectInfo
    \/ FacHealthCheck
    \/ NewManagerHealthCheck
    \/ FacClose
    \/ ModuleRead
    \/ ModuleUpdateCatalogInfo
    \/ ValidateBackendConnection

SpecHelpers == InitHelpers /\ [][NextHelpers]_vars

\* ------------------------- the specification of the shared PostgreSQL backend
\* Callers A and B use one PostgreSQLBackend instance.  update_object and
\* import_catalog(merge=False) proceed statement by statement, so that the
\* calls of the two interleave; the other methods are one step each.

\* The number of calls of one behaviour
MaxPoolOps == 3

\* Each caller writes an object of its own; the import brings V2
RowOf(c) == IF c = "A" THEN "V1" ELSE "V2"
ImportRow == "V2"

\* The failure that can hit a statement: the server is gone
ConnFaults == {"none", "OperationalError"}

InitPool ==
    /\ backend = "postgresql"
    /\ fs = json_init([live |-> Absent, backup |-> Absent, tmp |-> Absent])
    /\ db = EmptyDb
    /\ cache = EmptyDict
    /\ now = 0
    /\ last = NoCall
    /\ pc = [t \in Threads |-> "idle"]
    /\ local = [t \in Threads |-> IdleLocal]
    /\ lock = "none"
    /\ faults = 0
    /\ observed = NoRead
    /\ calls = 0
    /\ mm = NoMigration
    /\ backups = EmptyDict
    /\ mig = NoMigCall
    /\ hyb = NoHybrid
    /\ fac = NoManager
    /\ pg = NewSession

poolFrame == <<backend, fs, db, cache, now, last, pc, local, lock, faults, observed,
               calls, mm, backups, mig, hyb, fac>>

\* Caller c is between calls and makes another
Starting(c) == pg.th[c].pc = "idle" /\ pg.started < MaxPoolOps
Started(s) ==
    [s EXCEPT !.started = @ + 1,
              !.th = [c \in Callers |-> [s.th[c] EXCEPT !.alone = FALSE]]]
Alone(c) == \A d \in Callers \ {c} : pg.th[d].pc = "idle"

\* The transaction connection the call of c has come across when it reads
\* self.current_connection in this step (0: none so far)
Seen(c) == IF pg.th[c].before # 0 THEN pg.th[c].before ELSE pg.current_connection

\* The call of caller c that ends in this step, with what it handed back
Returns(s, c, op, arg, ret, exc, took) ==
    Ended(s, c, op, arg, ret, exc, took, pg.th[c].held, Seen(c), pg.th[c].alone,
          pg.owner, pg.closed)

\* An atomic call: it found current_connection as it is now
Answers(s, c, op, arg, ret, exc, took) ==
    Ended(s, c, op, arg, ret, exc, took, took, pg.current_connection, Alone(c),
          pg.owner, pg.closed)

\* backend.begin_transaction()
SessionBegin(c) ==
    /\ Starting(c)
    /\ \E r \in {begin_transaction(Started(pg), c)} :
          pg' = Answers(r.s, c, "begin_transaction", "none", "None", r.exc, {})
    /\ UNCHANGED poolFrame

\* backend.commit_transaction()
SessionCommit(c) ==
    /\ Starting(c)
    /\ \E fault \in ConnFaults :
       \E r \in {commit_transaction(Started(pg), fault)} :
          pg' = Answers(r.s, c, "commit_transaction", fault, "None", r.exc, {})
    /\ UNCHANGED poolFrame

\* backend.rollback_transaction()
SessionRollback(c) ==
    /\ Starting(c)
    /\ \E fault \in ConnFaults :
       \E r \in {rollback_transaction(Started(pg), fault)} :
          pg' = Answers(r.s, c, "rollback_transaction", fault, "None", r.exc, {})
    /\ UNCHANGED poolFrame

\* backend.close()
SessionClose(c) ==
    /\ Starting(c)
    /\ \E r \in {pg_close(Started(pg))} :
          pg' = Answers(r.s, c, "close", "none", "None", r.exc, {})
    /\ UNCHANGED poolFrame

\* backend.health_check()
SessionHealthCheck(c) ==
    /\ Starting(c)
    /\ \E fault \in ConnFaults :
       \E r \in {session_health_check(Started(pg), fault)} :
          pg' = Answers(r.s, c, "health_check", fault, r.ret, "none", r.took)
    /\ UNCHANGED poolFrame

\* The caller holds connection r for the statements of op
Holding(s, c, op, row, r, at) ==
    [CheckedOut(s, r) EXCEPT
        !.th[c] = [IdleCaller EXCEPT
                      !.pc = at, !.op = op, !.row = row,
                      !.conn = IF op = "update_object" THEN r.conn ELSE 0,
                      !.outer = IF op = "update_object" THEN 0 ELSE r.conn,
                      !.took = IF r.pooled THEN {r.conn} ELSE {},
                      !.held = IF r.pooled THEN {r.conn} ELSE {},
                      !.before = s.current_connection, !.alone = Alone(c)]]

\* backend.update_object(row ...), line 324: conn = self._get_connection()
SessionUpdateObject(c) ==
    /\ Starting(c)
    /\ \E r \in {get_connection(pg)} :
          pg' = IF r.exc # "none"
                THEN Answers(Started(pg), c, "update_object", RowOf(c), "None", r.exc, {})
                ELSE Holding(Started(pg), c, "update_object", RowOf(c), r, "upd_exec")
    /\ UNCHANGED poolFrame

\* What the failure of a nested update_object leaves of the import: the
\* except block of lines 814-816 counts it
NestedFailed(s, c) ==
    [s EXCEPT !.th[c].pc = "imp_commit", !.th[c].errors = 1, !.th[c].conn = 0,
              !.th[c].before = Seen(c), !.th[c].held = @ \cap s.used]

\* update_object, 326-467: the INSERT statements on the connection; they
\* wait while another connection holds the row
SessionUpdateExecute(c) ==
    /\ pg.th[c].pc = "upd_exec"
    /\ IF pg.th[c].conn \in pg.lost
       THEN \E r \in {statement_failed(pg, pg.th[c].conn)} :
               pg' = IF pg.th[c].op = "import_catalog" THEN NestedFailed(r.s, c)
                     ELSE Returns(r.s, c, "update_object", pg.th[c].row, "None", r.exc,
                                  pg.th[c].took)
       ELSE /\ ~Locked(pg, pg.th[c].conn, pg.th[c].row)
            /\ pg' = [pg EXCEPT !.pending[pg.th[c].conn] = @ \cup {pg.th[c].row},
                                !.th[c].pc = "upd_finish"]
    /\ UNCHANGED poolFrame

\* update_object, 469-481: COMMIT, return True, _put_connection
SessionUpdateFinish(c) ==
    /\ pg.th[c].pc = "upd_finish"
    /\ \E r \in {update_finished(pg, pg.th[c].conn)} :
          pg' = IF pg.th[c].op = "import_catalog"
                THEN IF r.exc # "none" THEN NestedFailed(r.s, c)
                     ELSE [r.s EXCEPT !.th[c].pc = "imp_commit", !.th[c].conn = 0,
                                      !.th[c].before = Seen(c),
                                      !.th[c].held = @ \cap r.s.used]
                ELSE Returns(r.s, c, "update_object", pg.th[c].row,
                             IF r.exc = "none" THEN "True" ELSE "None", r.exc,
                             pg.th[c].took)
    /\ UNCHANGED poolFrame

\* backend.import_catalog({ImportRow: ...}, merge=False), line 772
SessionImportCatalog(c) ==
    /\ Starting(c)
    /\ \E r \in {get_connection(pg)} :
          pg' = IF r.exc # "none"
                THEN Answers(Started(pg), c, "import_catalog", ImportRow, "None", r.exc, {})
                ELSE Holding(Started(pg), c, "import_catalog", ImportRow, r, "imp_delete")
    /\ UNCHANGED poolFrame

\* import_catalog, 782-791: the DELETE statements on the connection of the
\* import; they wait while another connection holds a row
SessionImportDelete(c) ==
    /\ pg.th[c].pc = "imp_delete"
    /\ IF pg.th[c].outer \in pg.lost
       THEN \E r \in {statement_failed(pg, pg.th[c].outer)} :
               pg' = Returns(r.s, c, "import_catalog", pg.th[c].row, "None", r.exc,
                             pg.th[c].took)
       ELSE /\ \A row \in pg.rows : ~Locked(pg, pg.th[c].outer, row)
            /\ pg' = [pg EXCEPT !.deleted[pg.th[c].outer] = pg.rows,
                                !.pending[pg.th[c].outer] = {},
                                !.th[c].pc = "imp_update"]
    /\ UNCHANGED poolFrame

\* import_catalog, 809-811: self.update_object(...) for the object, which
\* asks _get_connection for a connection of its own
SessionImportUpdate(c) ==
    /\ pg.th[c].pc = "imp_update"
    /\ \E r \in {get_connection(pg)} :
          pg' = IF r.exc # "none" THEN NestedFailed(pg, c)
                ELSE [CheckedOut(pg, r) EXCEPT
                         !.th[c].pc = "upd_exec", !.th[c].conn = r.conn,
                         !.th[c].before = Seen(c),
                         !.th[c].took = @ \cup (IF r.pooled THEN {r.conn} ELSE {}),
                         !.th[c].held = @ \cup (IF r.pooled THEN {r.conn} ELSE {})]
    /\ UNCHANGED poolFrame

\* import_catalog, 829-844: COMMIT, return stats, _put_connection
SessionImportCommit(c) ==
    /\ pg.th[c].pc = "imp_commit"
    /\ \E r \in {update_finished(pg, pg.th[c].outer)} :
          pg' = Returns(r.s, c, "import_catalog", pg.th[c].row,
                        IF r.exc # "none" THEN "None"
                        ELSE IF pg.th[c].errors = 0 THEN "imported" ELSE "errors",
                        r.exc, pg.th[c].took)
    /\ UNCHANGED poolFrame

\* The statements of a call that has begun
Proceeds(c) ==
    \/ SessionUpdateExecute(c)
    \/ SessionUpdateFinish(c)
    \/ SessionImportDelete(c)
    \/ SessionImportUpdate(c)
    \/ SessionImportCommit(c)

NextPool ==
    \E c \in Callers :
       \/ SessionBegin(c)
       \/ SessionCommit(c)
       \/ SessionRollback(c)
       \/ SessionClose(c)
       \/ SessionHealthCheck(c)
       \/ SessionUpdateObject(c)
       \/ SessionImportCatalog(c)
       \/ Proceeds(c)

\* A caller that has begun a call goes on with it whenever its next
\* statement can run.
SpecPool == InitPool /\ [][NextPool]_vars /\ \A c \in Callers : WF_vars(Proceeds(c))

\* ----------------- the specification of overlapping calls on one manager
\* Two threads call update_catalog_info, delete_catalog_entry and
\* get_catalog_info on one DBIOManager with a Redis cache.  The facade holds
\* no lock: each call is taken in the steps between which another thread can
\* run, a step being one call on the backend or on the cache.

\* The number of calls the threads start in one behaviour
MaxOverlap == 3

\* A thread between calls.  found tells whether update_catalog_info read an
\* existing record, attributes is what it hands to the backend, success what
\* the backend returned, catalog what get_catalog_info read or returns,
\* wrote the time of the backend write and created the CREATED the backend
\* held for the key right after it, met the threads whose calls were in
\* progress during this call.
OverlapIdle ==
    [op |-> "none", key |-> << >>, attributes |-> EmptyDict, found |-> FALSE,
     success |-> FALSE, catalog |-> EmptyDict, wrote |-> 0, created |-> 0, met |-> {}]

InitOverlap ==
    /\ backend \in {"json_file", "postgresql"}
    /\ fs = json_init([live |-> Absent, backup |-> Absent, tmp |-> Absent])
    /\ db = EmptyDb
    /\ cache = EmptyDict
    /\ now = 0
    /\ last = NoCall
    /\ pc = [t \in Threads |-> "idle"]
    /\ local = [t \in Threads |-> OverlapIdle]
    /\ lock = "none"
    /\ faults = 0
    /\ observed = NoRead
    /\ calls = 0
    /\ mm = NoMigration
    /\ backups = EmptyDict
    /\ mig = NoMigCall
    /\ hyb = NoHybrid
    /\ fac = [NoManager EXCEPT !.cache = RedisCache]
    /\ pg = NoSession

overlapFrame == <<backend, last, lock, faults, observed, mm, backups, mig, hyb, fac, pg>>

\* Thread t enters a call: it meets the threads that are inside one, and
\* they meet it.
Entered(locals, pcs, t, call) ==
    [u \in Threads |->
        IF u = t THEN [call EXCEPT !.met = {w \in Threads \ {t} : pcs[w] # "idle"}]
        ELSE IF pcs[u] # "idle" THEN [locals[u] EXCEPT !.met = @ \cup {t}]
        ELSE locals[u]]

\* The CREATED the backend holds for key k, 0 when it holds none
StoredCreated(b, files, tables, k) ==
    IF In("CREATED", backend_get_object(b, files, tables, k[1], k[2], k[3]))
    THEN backend_get_object(b, files, tables, k[1], k[2], k[3])["CREATED"]
    ELSE 0

\* update_catalog_info, core.py 110-119: the attributes are stamped and the
\* current record is read to decide on CREATED
OverlapUpdateRead(t) ==
    /\ pc[t] = "idle" /\ calls < MaxOverlap
    /\ pc' = [pc EXCEPT ![t] = "update_write"]
    /\ local' = Entered(local, pc, t,
           [OverlapIdle EXCEPT
               !.op = "update_catalog_info", !.key = K1,
               !.found = Truthy(backend_get_object(backend, fs, db, "V1", "L1", "O1")),
               !.attributes =
                   StampCreated(backend_get_object(backend, fs, db, "V1", "L1", "O1"),
                                StampUpdated("PGM", [PGMTYPE |-> "JAVA"], now + 1))])
    /\ now' = now + 1
    /\ calls' = calls + 1
    /\ UNCHANGED <<fs, db, cache>>
    /\ UNCHANGED overlapFrame

\* update_catalog_info, core.py 122: backend.update_object
OverlapUpdateWrite(t) ==
    /\ pc[t] = "update_write"
    /\ \E r \in {backend_update_object(backend, fs, db, "V1", "L1", "O1",
                                       local[t].attributes, now + 1)} :
          /\ fs' = r.fs
          /\ db' = r.db
          /\ local' = [local EXCEPT ![t].success = (r.ret = "True"),
                                    ![t].wrote = now + 1,
                                    ![t].created = StoredCreated(backend, r.fs, r.db, K1)]
    /\ pc' = [pc EXCEPT ![t] = "invalidate"]
    /\ now' = now + 1
    /\ UNCHANGED <<cache, calls>>
    /\ UNCHANGED overlapFrame

\* delete_catalog_entry, core.py 148: backend.delete_object
OverlapDeleteWrite(t) ==
    /\ pc[t] = "idle" /\ calls < MaxOverlap
    /\ \E r \in {backend_delete_object(backend, fs, db, "V1", "L1", "O1")} :
          /\ fs' = r.fs
          /\ db' = r.db
          /\ local' = Entered(local, pc, t,
                 [OverlapIdle EXCEPT !.op = "delete_catalog_entry", !.key = K1,
                                     !.success = (r.ret = "True"), !.wrote = now + 1])
    /\ pc' = [pc EXCEPT ![t] = "invalidate"]
    /\ now' = now + 1
    /\ calls' = calls + 1
    /\ UNCHANGED cache
    /\ UNCHANGED overlapFrame

\* update_catalog_info, core.py 125-129, and delete_catalog_entry, 151-155:
\* the two invalidations after a successful write, and the return
OverlapInvalidate(t) ==
    /\ pc[t] = "invalidate"
    /\ cache' = invalidate_after_write(fac.cache, cache, local[t].success, "V1", "L1", "O1")
    /\ pc' = [pc EXCEPT ![t] = "idle"]
    /\ UNCHANGED <<fs, db, now, local, calls>>
    /\ UNCHANGED overlapFrame

\* get_catalog_info, core.py 72-76: the cache is asked first; a truthy
\* cached catalog is returned
OverlapGetCached(t) ==
    /\ pc[t] = "idle" /\ calls < MaxOverlap
    /\ \E cached \in {self_cache_get(fac.cache, cache, CatalogAllKey)} :
          /\ pc' = [pc EXCEPT ![t] = IF CachedTruthy(cached) THEN "idle" ELSE "get_backend"]
          /\ local' = Entered(local, pc, t,
                 [OverlapIdle EXCEPT !.op = "get_catalog_info",
                                     !.catalog = IF CachedTruthy(cached) THEN cached
                                                 ELSE EmptyDict])
    /\ calls' = calls + 1
    /\ UNCHANGED <<fs, db, cache, now>>
    /\ UNCHANGED overlapFrame

\* get_catalog_info, core.py 80: backend.get_all_objects
OverlapGetBackend(t) ==
    /\ pc[t] = "get_backend"
    /\ pc' = [pc EXCEPT ![t] = "get_set"]
    /\ local' = [local EXCEPT ![t].catalog = backend_get_all_objects(backend, fs, db)]
    /\ UNCHANGED <<fs, db, cache, now, calls>>
    /\ UNCHANGED overlapFrame

\* get_catalog_info, core.py 83-86: the catalog read is cached and returned
OverlapGetSet(t) ==
    /\ pc[t] = "get_set"
    /\ cache' = self_cache_set(fac.cache, cache, CatalogAllKey, local[t].catalog)
    /\ pc' = [pc EXCEPT ![t] = "idle"]
    /\ UNCHANGED <<fs, db, now, local, calls>>
    /\ UNCHANGED overlapFrame

NextOverlap ==
    \E t \in Threads :
        \/ OverlapUpdateRead(t)
        \/ OverlapUpdateWrite(t)
        \/ OverlapDeleteWrite(t)
        \/ OverlapInvalidate(t)
        \/ OverlapGetCached(t)
        \/ OverlapGetBackend(t)
        \/ OverlapGetSet(t)

SpecOverlap == InitOverlap /\ [][NextOverlap]_vars

\* --------------------------- the specification of the writes of the facade
\* One caller writes through one DBIOManager, starting from an empty
\* catalog: update_catalog_info, delete_catalog_entry and bulk_operations
\* with well-formed update and delete entries.
InitWrites == InitManager({NoCache, RedisCache})

NextWrites ==
    \/ FacUpdateCatalogInfo
    \/ FacDeleteCatalogEntry
    \/ FacBulkOperations

SpecWrites == InitWrites /\ [][NextWrites]_vars

\* ------------------- the specification of a kill during a write of the file
\* The threads of the second specification write through _save_catalog step
\* by step; the process can be killed between any two steps and during the
\* dump to the .tmp file, and a new JSONFileBackend is then constructed on
\* the same paths.  faults counts the kills.

\* What the kill leaves of a .tmp file that was being written: the dump had
\* not begun, or it was part way.
KilledFiles(files, at) ==
    IF at = "write_tmp" THEN {files, [files EXCEPT !.tmp = Partial]} ELSE {files}

\* The process is killed and JSONFileBackend(config) is constructed anew:
\* __init__ saves an empty catalog when there is no live file (json_file.py
\* 39-40).  observed records the catalog the new backend serves and the
\* catalogs before and after the write that was in progress.
KillAndRestart ==
    /\ faults < MaxFaults
    /\ \E at \in {IF lock = "none" THEN "idle" ELSE pc[lock]} :
       \E files \in KilledFiles(fs, at) :
          /\ fs' = json_init(files)
          /\ observed' = [by |-> "restart", out |-> load_catalog(json_init(files)),
                          pre |-> PreOfSave(fs, lock, local),
                          post |-> PostOfSave(fs, lock, local),
                          at |-> at]
    /\ pc' = [t \in Threads |-> "idle"]
    /\ local' = [t \in Threads |-> IdleLocal]
    /\ lock' = "none"
    /\ faults' = faults + 1
    /\ UNCHANGED calls
    /\ UNCHANGED restVars
    /\ UNCHANGED sessVars

NextCrash ==
    \/ StartUpdate
    \/ SaveBackup
    \/ SaveWriteTmp
    \/ SaveRename
    \/ SaveRemoveBackup
    \/ KillAndRestart

SpecCrash == InitFile /\ [][NextCrash]_vars

\* ------------------- the specification of the batches of the JSON backend
\* One caller on one JSONFileBackend: update_object and delete_object set
\* the catalog up, bulk_operations runs batches in which an entry fails.

\* A batch whose second entry brings attributes that are not a mapping,
\* between two well-formed entries on other keys
BatchBadAttributes ==
    <<UpdateOp(K1, [TYPE |-> "PGM"]), UpdateOp(K2, NotAMapping), DeleteOp(K3)>>

\* backend.bulk_operations(batch), called directly on the JSON backend; out
\* records the catalog the call read at its start (json_file.py 257).
JsonBulkOperations ==
    /\ Running /\ now < MaxClock
    /\ \E batch \in {BatchGood, BatchOneBad, BatchBadAttributes} :
       \E r \in {json_bulk_operations(fs, batch)} :
          /\ fs' = r.fs
          /\ last' = Call("bulk", "backend", << >>, batch, FALSE, "stats", r.exc,
                          r.ret, r.saves, load_catalog(fs))
    /\ now' = now + 1
    /\ UNCHANGED <<backend, cache, db>>
    /\ UNCHANGED threadVars
    /\ UNCHANGED sessVars
    /\ UNCHANGED migVars

NextBulk ==
    \/ UpdateObject
    \/ DeleteObject
    \/ JsonBulkOperations

SpecBulk == InitFile /\ [][NextBulk]_vars

\* --------------------- specification: two managers on one cache store
\* The managers of two configurations whose 'cache' sections are enabled:
\* each DBIOManager constructs its own CacheManager (core.py 44-45), and
\* every CacheManager connects to the Redis server and database its
\* configuration names, localhost:6379 db 0 unless told otherwise (cache.py
\* 36-46).  The keys carry no name of a backend, so the two managers read
\* and write the same entries.

\* The pairs of source and target backend with a cache each
SharedConfigs ==
    {[source |-> "json_file", target |-> "postgresql"],
     [source |-> "postgresql", target |-> "json_file"]}

\* The latest read through one of the two managers: the catalog it returned
\* and the catalogs the two backends held
SharedRead(side, out, own, other) ==
    [op |-> "get_catalog_info", side |-> side, out |-> out, own |-> own,
     other |-> other, exc |-> "none"]

OtherSide(side) == IF side = "source" THEN "target" ELSE "source"

\* What a migration over the two managers leaves and gives: run is the
\* MigrationManager's outcome, checked the catalog of the target manager
\* that the validation compared, cache the store afterwards.
SharedOutcome(run, store, checked) ==
    [run |-> run, cache |-> store, checked |-> checked]

\* _create_backup, lines 111-129, got being what export_to_json read
\* through the source manager
shared_backup(s, files, dir, id, got) ==
    [backups |-> backup_original(s, files,
                     export_to_json(dir, BackupFile(id), got.ret), id),
     cache |-> got.cache]

\* _validate_migration, lines 143-144: the source manager reads first, the
\* target manager second, both through the store
shared_target_read(t, files, tables, src) ==
    [source_catalog |-> src.ret, target |-> get_catalog_info(t, files, tables, src.cache)]

shared_reads(s, t, files, tables, store) ==
    shared_target_read(t, files, tables, get_catalog_info(s, files, tables, store))

\* Lines 89-101 with the catalogs the validation read
shared_finish(r, dir, source_objects, backup_path, reads) ==
    SharedOutcome(
        migrate_finish(r.fs, r.db, dir, source_objects, backup_path,
            stats_update(PyList(<< >>), r.ret),
            validate_migration(reads.source_catalog, reads.target.ret)),
        reads.target.cache, reads.target.ret)

\* Lines 86-109 once import_catalog of the target manager has returned r
shared_imported(s, t, r, dir, source_objects, backup_path, validate_after) ==
    IF r.exc # "none"
    THEN SharedOutcome(
             MigOutcome(r.fs, r.db, dir,
                 IF r.exc = "hang" THEN "hang" ELSE migrate_handler(PyList(<< >>)),
                 {"source", "target"}, FALSE, ZeroMigStats),
             r.cache, EmptyDict)
    ELSE IF validate_after
    THEN shared_finish(r, dir, source_objects, backup_path,
                       shared_reads(s, t, r.fs, r.db, r.cache))
    ELSE SharedOutcome(
             migrate_finish(r.fs, r.db, dir, source_objects, backup_path,
                 stats_update(PyList(<< >>), r.ret), NoValidation),
             r.cache, EmptyDict)

\* Lines 76-86: the source manager's catalog is imported into the target
shared_import(s, t, files, tables, dir, backup_path, validate_after, ts, src) ==
    shared_imported(s, t,
        import_catalog(t, files, tables, src.cache, src.ret, FALSE, ts),
        dir, count_objects(src.ret), backup_path, validate_after)

\* Lines 68-76 after the backup bk
shared_after_backup(s, t, files, tables, bk, backup_path, validate_after, ts) ==
    shared_import(s, t, files, tables, bk.backups, backup_path, validate_after, ts,
                  get_catalog_info(s, files, tables, bk.cache))

\* migrate_catalog, lines 35-109, of a run that is not a dry run, by
\* managers that share the store
shared_migrate_catalog(s, t, files, tables, dir, store, backup_before, validate_after, ts) ==
    IF backup_before
    THEN shared_after_backup(s, t, files, tables,
             shared_backup(s, files, dir, ts, get_catalog_info(s, files, tables, store)),
             BackupFile(ts), validate_after, ts)
    ELSE shared_after_backup(s, t, files, tables, [backups |-> dir, cache |-> store],
             << >>, validate_after, ts)

\* The record of a migration by the two managers: checked is the target
\* catalog the validation compared, persisted the catalog the target backend
\* held when the run ended, source the one the source backend held.
SharedMigCall(id, backup_before, validate_after, r, s, t) ==
    [op |-> "migrate", id |-> id, backup_before |-> backup_before,
     validate_after |-> validate_after, exc |-> r.run.exc, stats |-> r.run.stats,
     checked |-> r.checked,
     persisted |-> backend_get_all_objects(t, r.run.fs, r.run.db),
     source |-> backend_get_all_objects(s, r.run.fs, r.run.db)]

InitShared ==
    /\ backend = "json_file"
    /\ fs = json_init([live |-> Absent, backup |-> Absent, tmp |-> Absent])
    /\ db = EmptyDb
    /\ cache = EmptyDict
    /\ now = 0
    /\ last = NoCall
    /\ pc = [t \in Threads |-> "idle"]
    /\ local = [t \in Threads |-> IdleLocal]
    /\ lock = "none"
    /\ faults = 0
    /\ observed = NoRead
    /\ calls = 0
    /\ mm \in SharedConfigs
    /\ backups = EmptyDict
    /\ mig = NoMigCall
    /\ hyb = NoHybrid
    /\ fac = [NoManager EXCEPT !.cache = RedisCache]
    /\ pg = NoSession

sharedFrame == <<backend, pc, local, lock, faults, observed, calls, mm, hyb, fac, pg>>

\* manager.update_catalog_info(k, object_type, **kwargs) through the manager
\* of one side: its backend is written and the store invalidated
SharedUpdateCatalogInfo ==
    /\ mig.exc # "hang" /\ now < MaxSteps
    /\ \E side \in {"source", "target"}, w \in MigWrites :
       \E r \in {update_catalog_info(mm[side], fs, db, cache, w[1][1], w[1][2],
                                     w[1][3], w[2], w[3], now + 1)} :
          /\ fs' = r.fs
          /\ db' = r.db
          /\ cache' = r.cache
    /\ now' = now + 1
    /\ UNCHANGED <<last, backups, mig>>
    /\ UNCHANGED sharedFrame

\* manager.get_catalog_info() through the manager of one side
SharedGetCatalogInfo ==
    /\ mig.exc # "hang"
    /\ \E side \in {"source", "target"} :
       \E r \in {get_catalog_info(mm[side], fs, db, cache)} :
          /\ cache' = r.cache
          /\ last' = SharedRead(side, r.ret,
                         backend_get_all_objects(mm[side], fs, db),
                         backend_get_all_objects(mm[OtherSide(side)], fs, db))
    /\ UNCHANGED <<fs, db, now, backups, mig>>
    /\ UNCHANGED sharedFrame

\* migration.migrate_catalog(backup_before, validate_after)
SharedMigrateCatalog ==
    /\ mig.exc # "hang" /\ now < MaxSteps
    /\ \E backup_before \in BOOLEAN, validate_after \in BOOLEAN :
       \E r \in {shared_migrate_catalog(mm.source, mm.target, fs, db, backups, cache,
                                        backup_before, validate_after, now + 1)} :
          /\ fs' = r.run.fs
          /\ db' = r.run.db
          /\ backups' = r.run.backups
          /\ cache' = r.cache
          /\ mig' = SharedMigCall(now + 1, backup_before, validate_after, r,
                                  mm.source, mm.target)
    /\ now' = now + 1
    /\ UNCHANGED last
    /\ UNCHANGED sharedFrame

NextShared ==
    \/ SharedUpdateCatalogInfo
    \/ SharedGetCatalogInfo
    \/ SharedMigrateCatalog

SpecShared == InitShared /\ [][NextShared]_vars

\* ------------------- specification: the two backends given the same calls
\* A JSONFileBackend and a PostgreSQLBackend that both start empty; every
\* update_object and delete_object call is made on the one and on the other.

TwinKeys == {K1, K3, K4}

\* The payloads of update_object: a program, a dataset, and a payload that
\* names no TYPE
TwinAttributes == {[TYPE |-> "PGM", PGMTYPE |-> "JAVA"], [TYPE |-> "DATASET"], EmptyDict}

\* The record of a call made on both backends, with what each returned
TwinCall(op, key, attributes, r_json, r_pg) ==
    [op |-> op, key |-> key, arg |-> attributes, json |-> r_json.ret, pg |-> r_pg.ret,
     exc |-> IF r_json.exc # "none" THEN r_json.exc ELSE r_pg.exc]

InitTwin ==
    /\ backend = "json_file"
    /\ fs = json_init([live |-> Absent, backup |-> Absent, tmp |-> Absent])
    /\ db = EmptyDb
    /\ cache = EmptyDict
    /\ now = 0
    /\ last = NoCall
    /\ pc = [t \in Threads |-> "idle"]
    /\ local = [t \in Threads |-> IdleLocal]
    /\ lock = "none"
    /\ faults = 0
    /\ observed = NoRead
    /\ calls = 0
    /\ mm = [source |-> "json_file", target |-> "postgresql"]
    /\ backups = EmptyDict
    /\ mig = NoMigCall
    /\ hyb = NoHybrid
    /\ fac = NoManager
    /\ pg = NoSession

twinFrame == <<backend, cache, pc, local, lock, faults, observed, calls, mm, backups,
               mig, hyb, fac, pg>>

\* backend.update_object(k, attributes) on both backends
TwinUpdateObject ==
    /\ now < MaxSteps
    /\ \E k \in TwinKeys, attributes \in TwinAttributes :
       \E r_json \in {json_update_object(fs, k[1], k[2], k[3], attributes)},
          r_pg \in {pg_update_object(db, k[1], k[2], k[3], attributes, now + 1)} :
          /\ fs' = r_json.fs
          /\ db' = r_pg.db
          /\ last' = TwinCall("update_object", k, attributes, r_json, r_pg)
    /\ now' = now + 1
    /\ UNCHANGED twinFrame

\* backend.delete_object(k) on both backends
TwinDeleteObject ==
    /\ now < MaxSteps
    /\ \E k \in TwinKeys :
       \E r_json \in {json_delete_object(fs, k[1], k[2], k[3])},
          r_pg \in {pg_delete_object(db, k[1], k[2], k[3])} :
          /\ fs' = r_json.fs
          /\ db' = r_pg.db
          /\ last' = TwinCall("delete_object", k, EmptyDict, r_json, r_pg)
    /\ now' = now + 1
    /\ UNCHANGED twinFrame

NextTwin ==
    \/ TwinUpdateObject
    \/ TwinDeleteObject

SpecTwin == InitTwin /\ [][NextTwin]_vars

\* ------------------ specification: a migration and the rollback of its run
\* migrate_catalog with backup_before=True, then rollback_migration with the
\* backup_path of that run.  before is the catalog the target backend held
\* when the run started, after the one it holds when the call has ended.

RunRecord(op, backup_path, r, before, after) ==
    [op |-> op, exc |-> r.exc, opened |-> r.opened, imported |-> r.imported,
     stats |-> r.stats, backup_path |-> backup_path, before |-> before,
     after |-> after]

\* The target's catalog, read from its backend; a backend that cannot be
\* constructed has none.
target_catalog(t, files, tables) ==
    IF manager_exc(t) # "none" THEN EmptyDict
    ELSE backend_get_all_objects(t, files, tables)

\* The run has failed, or failed its validation, after both managers were
\* constructed and the backup written.
RunFailed ==
    /\ mig.op = "migrate"
    /\ mig.opened = {"source", "target"}
    /\ mig.exc # "hang"
    /\ \/ mig.exc # "none"
       \/ mig.stats.validation.ran /\ ~mig.stats.validation.success

\* migration.migrate_catalog(backup_before=True, validate_after, dry_run=False)
RunWithBackup ==
    /\ MigRunning /\ now < MaxSteps
    /\ \E validate_after \in BOOLEAN :
       \E r \in {migrate_catalog(mm.source, mm.target, fs, db, backups, TRUE,
                                 validate_after, FALSE, now + 1)} :
          /\ fs' = r.fs
          /\ db' = r.db
          /\ backups' = r.backups
          /\ mig' = RunRecord("migrate", BackupFile(now + 1), r,
                              target_catalog(mm.target, fs, db),
                              target_catalog(mm.target, r.fs, r.db))
    /\ now' = now + 1
    /\ UNCHANGED <<mm, hyb>>
    /\ UNCHANGED managerVars
    /\ UNCHANGED threadVars
    /\ UNCHANGED sessVars

\* migration.rollback_migration(backup_path) with the backup_path of the
\* run that failed
RollbackRun ==
    /\ RunFailed /\ now < MaxSteps
    /\ \E r \in {rollback_migration(mm.target, fs, db, backups, mig.backup_path,
                                    now + 1)} :
          /\ fs' = r.fs
          /\ db' = r.db
          /\ mig' = RunRecord("rollback", mig.backup_path, r, mig.before,
                              target_catalog(mm.target, r.fs, r.db))
    /\ now' = now + 1
    /\ UNCHANGED <<mm, backups, hyb>>
    /\ UNCHANGED managerVars
    /\ UNCHANGED threadVars
    /\ UNCHANGED sessVars

NextRollback ==
    \/ ManagerUpdate
    \/ RunWithBackup
    \/ RollbackRun

SpecRollback == InitMigration /\ [][NextRollback]_vars

\* ------------------------------------------------------------- properties
\* What the configured backend holds, as its read operations return it.
Stored(files, tables, k) == backend_get_object(backend, files, tables, k[1], k[2], k[3])
CatalogOf(files, tables) == backend_get_all_objects(backend, files, tables)

KeysOf(catalog) ==
    {k \in Volumes \X Libraries \X Names : HasObject(catalog, k[1], k[2], k[3])}

\* Every volume, library and object entry of the catalog is a mapping.
WellFormed(catalog) ==
    \A v \in DOMAIN catalog :
        /\ IsDict(catalog[v])
        /\ \A l \in DOMAIN catalog[v] :
              /\ IsDict(catalog[v][l])
              /\ \A o \in DOMAIN catalog[v][l] : IsDict(catalog[v][l][o])

\* The objects of a catalog with their TYPE.
ObjectTypes(catalog) ==
    {<<k, AttrGet(catalog[k[1]][k[2]][k[3]], "TYPE", "none")>> : k \in KeysOf(catalog)}

CreatedKept(before, after, stamp) ==
    /\ In("CREATED", after) /\ after["CREATED"] = before["CREATED"]
    /\ In("UPDATED", after) /\ after["UPDATED"] = stamp

\* C1: after a successful write (backend update_object or facade
\* update_catalog_info) to a key whose record has CREATED, with a payload
\* that brings no CREATED, the stored CREATED is the one it was and the
\* stored UPDATED is the time of this write.
C1_CreatedKeptUpdatedLatest ==
    [][(/\ last'.op = "update" /\ last'.ret = "True" /\ last'.exc = "none"
        /\ In("CREATED", Stored(fs, db, last'.key))
        /\ ~In("CREATED", last'.arg))
       => CreatedKept(Stored(fs, db, last'.key), Stored(fs', db', last'.key), now')]_vars

RoundTrip(attrs, got, first) ==
    /\ IsDict(got)
    /\ \A a \in DOMAIN attrs : a \in DOMAIN got /\ got[a] = attrs[a]
    /\ "CREATED" \in DOMAIN got
    /\ "UPDATED" \in DOMAIN got
    /\ first => got["CREATED"] = got["UPDATED"]

\* C2: get_object after a successful backend update_object returns a
\* superset of the payload that has CREATED and UPDATED, equal to each other
\* when the key had no record before.
C2_UpdateThenGetRoundTrip ==
    [][(/\ last'.op = "update" /\ last'.via = "backend"
        /\ last'.ret = "True" /\ last'.exc = "none")
       => RoundTrip(last'.arg, Stored(fs', db', last'.key),
                    ~IsDict(Stored(fs, db, last'.key)))]_vars

\* C3: a delete (backend delete_object or facade delete_catalog_entry) of a
\* key that has no record returns False, raises nothing, and leaves the
\* files, the tables and the cache as they were.
C3_DeleteAbsentChangesNothing ==
    [][(last'.op = "delete" /\ ~IsDict(Stored(fs, db, last'.key)))
       => /\ last'.ret = "False"
          /\ last'.exc = "none"
          /\ fs' = fs
          /\ db' = db
          /\ cache' = cache]_vars

\* A facade delete of a missing key has returned False while the catalog
\* holds objects and the cache holds entries.
C3_Witness ==
    /\ last.op = "delete" /\ last.via = "facade" /\ last.ret = "False"
    /\ DOMAIN cache # {}
    /\ KeysOf(CatalogOf(fs, db)) # {}

\* Whether the backend still holds the library, the volume: for the JSON
\* backend an entry of the file's mapping, for PostgreSQL a row of
\* aspuser.libraries, aspuser.volumes.
HoldsLibrary(files, tables, v, l) ==
    IF backend = "json_file"
    THEN In(v, load_catalog(files)) /\ In(l, load_catalog(files)[v])
    ELSE <<v, l>> \in tables.libraries
HoldsVolume(files, tables, v) ==
    IF backend = "json_file" THEN In(v, load_catalog(files))
    ELSE v \in tables.volumes

OnlyObject(catalog, k) ==
    HasObject(catalog, k[1], k[2], k[3]) /\ DOMAIN catalog[k[1]][k[2]] = {k[3]}
OnlyLibrary(catalog, k) == DOMAIN catalog[k[1]] = {k[2]}

\* C4: after delete_object has removed the last object of a library the
\* backend no longer holds that library, and when it was the last library
\* of its volume the backend no longer holds the volume; on either backend.
C4_CascadingPrune ==
    [][(/\ last'.op = "delete" /\ last'.ret = "True"
        /\ OnlyObject(CatalogOf(fs, db), last'.key))
       => /\ ~HoldsLibrary(fs', db', last'.key[1], last'.key[2])
          /\ OnlyLibrary(CatalogOf(fs, db), last'.key)
                => ~HoldsVolume(fs', db', last'.key[1])]_vars

MergedTypes(a, b) ==
    ObjectTypes(b) \cup {x \in ObjectTypes(a) : x[1] \notin KeysOf(b)}

\* C5: import_catalog of a well-formed catalog B into a well-formed catalog
\* A returns, and leaves the backend holding, by object key and TYPE, B's
\* objects plus those of A not named in B when merge is true, and exactly
\* B's objects when merge is false.
C5_ImportMergeOrReplace ==
    [][(/\ last'.op = "import" /\ last'.arg = ImportGood
        /\ WellFormed(CatalogOf(fs, db)))
       => /\ last'.exc = "none"
          /\ ObjectTypes(CatalogOf(fs', db')) =
                IF last'.merge THEN MergedTypes(CatalogOf(fs, db), ImportGood)
                ELSE ObjectTypes(ImportGood)]_vars

\* C6: bulk_operations on the batch with one entry that is not a mapping
\* among three valid ones raises nothing, returns errors = 1, leaves the two
\* updated objects stored and the deleted one gone, and persists once.
C6_BulkOneMalformedEntry ==
    [][(last'.op = "bulk" /\ last'.arg = BatchOneBad)
       => /\ last'.exc = "none"
          /\ last'.stats.errors = 1
          /\ {K2, K3} \subseteq KeysOf(CatalogOf(fs', db'))
          /\ K1 \notin KeysOf(CatalogOf(fs', db'))
          /\ last'.saves = 1]_vars

\* C7: import_catalog of data with one volume, library or object entry that
\* is not a mapping raises nothing, imports every valid object and counts
\* the bad entry in errors.
C7_ImportOneBadRecord ==
    [][(/\ last'.op = "import"
        /\ last'.arg \in {ImportBadVolume, ImportBadLibrary, ImportBadObject}
        /\ WellFormed(CatalogOf(fs, db)))
       => /\ last'.exc = "none"
          /\ last'.stats.errors >= 1
          /\ ImportableKeys(last'.arg, Volumes) \subseteq KeysOf(CatalogOf(fs', db'))]_vars

\* C8: when _save_catalog has raised after the write of the .tmp file or
\* its rename failed, the live file is, at that moment, the file it was
\* when _save_catalog was entered.
C8_FailedSaveLeavesLiveFile ==
    \A t \in Threads :
        (local[t].outcome = "raised" /\ local[t].failed \in {"write_tmp", "rename"})
            => local[t].surfaced = local[t].pre

\* A save of a thread has raised after its rename failed, entered with a
\* live file holding objects.
C8_Witness ==
    \E t \in Threads :
        /\ local[t].outcome = "raised" /\ local[t].failed = "rename"
        /\ local[t].pre.state = "complete"
        /\ KeysOf(local[t].pre.data) # {}

\* C9: a read of the catalog file, by a thread of the process or by another
\* process, returns the catalog as it was before the save in progress or as
\* it is after it.
C9_ReadSeesBeforeOrAfter ==
    observed.by # "none" => observed.out \in {observed.pre, observed.post}

\* C10: once two threads have each returned from an update_object of
\* distinct keys, both objects are in the catalog file.
C10_ConcurrentUpdatesBothStored ==
    (/\ lock = "none"
     /\ \A t \in Threads : local[t].outcome = "returned"
     /\ local["t1"].key # local["t2"].key)
        => \A t \in Threads : local[t].key \in KeysOf(load_catalog(fs))

\* --------------------------------- properties of the migration and hybrid
\* What the managers of the two configurations return as their catalogs.
SourceCatalog(files, tables) == manager_catalog(mm.source, files, tables)
TargetCatalog(files, tables) == manager_catalog(mm.target, files, tables)

BothConstructed == manager_exc(mm.source) = "none" /\ manager_exc(mm.target) = "none"

\* This step is a call of the MigrationManager operation op.
MigStep(op) == mig'.op = op /\ mig'.id = now' /\ now' = now + 1

TypeOf(catalog, k) == AttrGet(catalog[k[1]][k[2]][k[3]], "TYPE", "None")

\* The same volumes, the same libraries in each volume, the same names in
\* each library and the same TYPE for every object.
Agree(a, b) ==
    /\ DOMAIN a = DOMAIN b
    /\ \A v \in DOMAIN a : DOMAIN a[v] = DOMAIN b[v]
    /\ \A v \in DOMAIN a : \A l \in DOMAIN a[v] : DOMAIN a[v][l] = DOMAIN b[v][l]
    /\ \A k \in KeysOf(a) : TypeOf(a, k) = TypeOf(b, k)

\* held has the objects of given and no other, each with the TYPE given
\* names for it.
HoldsExactly(held, given) ==
    /\ KeysOf(held) = KeysOf(given)
    /\ \A k \in KeysOf(given) :
          TypeOf(given, k) # "None" => TypeOf(held, k) = TypeOf(given, k)

\* after is prior with sent merged into it: the objects of both, those of
\* sent with the TYPE sent names, the others as they were.
MergedInto(after, prior, sent) ==
    /\ KeysOf(after) = KeysOf(prior) \cup KeysOf(sent)
    /\ \A k \in KeysOf(sent) :
          TypeOf(sent, k) # "None" => TypeOf(after, k) = TypeOf(sent, k)
    /\ \A k \in KeysOf(prior) \ KeysOf(sent) : TypeOf(after, k) = TypeOf(prior, k)

\* The backend b is left as it was by this step.
BackendKept(b) == IF b = "json_file" THEN fs' = fs ELSE db' = db

\* C11: a migrate_catalog that is not a dry run, with backup_before and
\* validate_after, whose import returned and after which source and target
\* agree, returns its statistics: source_objects is the number of objects of
\* the source, backup_path names a file that holds the source catalog,
\* validation.success is true and success is true.
C11_MigrateReturnsStatistics ==
    [][(/\ MigStep("migrate") /\ ~mig'.dry_run
        /\ mig'.backup_before /\ mig'.validate_after
        /\ mig'.imported
        /\ Agree(SourceCatalog(fs', db'), TargetCatalog(fs', db')))
       => /\ mig'.exc = "none"
          /\ mig'.stats.source_objects = Cardinality(KeysOf(SourceCatalog(fs, db)))
          /\ mig'.stats.backup_path \in DOMAIN backups'
          /\ backups'[mig'.stats.backup_path] = Complete(SourceCatalog(fs, db))
          /\ mig'.stats.validation.success
          /\ mig'.stats.success = "True"]_vars

\* C12: a migrate_catalog with validate_after whose import returned and
\* after which source and target disagree raises nothing: it returns
\* statistics with validation.success false, with differences that are not
\* empty or counts that do not match, and with success false.
C12_ValidationFailureIsReturned ==
    [][(/\ MigStep("migrate") /\ ~mig'.dry_run /\ mig'.validate_after
        /\ mig'.imported
        /\ ~Agree(SourceCatalog(fs', db'), TargetCatalog(fs', db')))
       => /\ mig'.exc = "none"
          /\ ~mig'.stats.validation.success
          /\ \/ mig'.stats.validation.differences # {}
             \/ ~mig'.stats.validation.count_match
          /\ mig'.stats.success = "False"]_vars

\* C13: what migrate_catalog, rollback_migration or sync_backends raises is
\* a MigrationError and nothing else.
C13_OnlyMigrationErrorEscapes ==
    (mig.op \in {"migrate", "rollback", "sync"} /\ mig.exc \notin {"none", "hang"})
        => mig.exc = "MigrationError"

\* C14: a migrate_catalog with dry_run, whatever backup_before and
\* validate_after are, constructs no manager of the target, changes neither
\* backend, writes no file to the backup directory, and returns as
\* source_objects the number of objects of the source catalog.
C14_DryRunTouchesNothing ==
    [][(MigStep("migrate") /\ mig'.dry_run)
       => /\ "target" \notin mig'.opened
          /\ fs' = fs /\ db' = db
          /\ backups' = backups
          /\ mig'.exc = "none"
          /\ mig'.stats.source_objects = Cardinality(KeysOf(SourceCatalog(fs, db)))]_vars

\* A dry run with backup_before, against a target that cannot be opened,
\* that counted two objects and left the backup directory empty.
C14_Witness ==
    /\ mig.op = "migrate" /\ mig.dry_run /\ mig.backup_before /\ mig.validate_after
    /\ mig.exc = "none"
    /\ mm.target = "mysql"
    /\ mig.stats.source_objects = 2
    /\ backups = EmptyDict

\* The names a difference is about: a volume, a library of a volume or an
\* object of a library.
NamesOf(difference) == SubSeq(difference, 3, Len(difference))

\* A difference with the label is reported at the path or at a volume or
\* library that encloses it.
Reported(differences, label, path) ==
    \E d \in differences :
        /\ d[1] = label
        /\ Len(NamesOf(d)) <= Len(path)
        /\ NamesOf(d) = SubSeq(path, 1, Len(NamesOf(d)))

\* Every volume, library and object of a that b lacks is reported.
OneSidedReported(differences, label, a, b) ==
    /\ \A v \in DOMAIN a \ DOMAIN b : Reported(differences, label, <<v>>)
    /\ \A v \in DOMAIN a : \A l \in DOMAIN a[v] :
          (~In(v, b) \/ ~In(l, b[v])) => Reported(differences, label, <<v, l>>)
    /\ \A k \in KeysOf(a) \ KeysOf(b) : Reported(differences, label, k)

\* C15: the validation of a migration reports success exactly when source
\* and target have the same volumes, libraries, object names and TYPE per
\* object; every volume, library or object on one side alone and every
\* object whose TYPE differs has an entry in differences.
C15_ValidationFindsEveryDifference ==
    [][(mig'.op = "validate" /\ mig' # mig)
       => /\ mig'.stats.validation.success
                <=> Agree(SourceCatalog(fs, db), TargetCatalog(fs, db))
          /\ OneSidedReported(mig'.stats.validation.differences, "Missing",
                              SourceCatalog(fs, db), TargetCatalog(fs, db))
          /\ OneSidedReported(mig'.stats.validation.differences, "Extra",
                              TargetCatalog(fs, db), SourceCatalog(fs, db))
          /\ \A k \in KeysOf(SourceCatalog(fs, db)) \cap KeysOf(TargetCatalog(fs, db)) :
                TypeOf(SourceCatalog(fs, db), k) # TypeOf(TargetCatalog(fs, db), k)
                   => Reported(mig'.stats.validation.differences, "Type mismatch", k)]_vars

\* A validation that failed with a TYPE mismatch and a volume the source
\* lacks among its differences.
C15_Witness ==
    /\ mig.op = "validate"
    /\ ~mig.stats.validation.success
    /\ mig.stats.validation.count_match = FALSE
    /\ \E d \in mig.stats.validation.differences : d[1] = "Type mismatch"
    /\ \E d \in mig.stats.validation.differences : d[1] = "Extra" /\ d[2] = "volume"

\* C16: the backup file migrate_catalog writes with backup_before holds the
\* source catalog as it was when the backup was made; rollback_migration of
\* a backup file returns and leaves the backend of the target configuration
\* holding the objects of that file and no other.
C16_BackupAndRollback ==
    [][/\ (MigStep("migrate") /\ ~mig'.dry_run /\ mig'.backup_before /\ BothConstructed)
            => /\ BackupFile(mig'.id) \in DOMAIN backups'
               /\ backups'[BackupFile(mig'.id)] = Complete(SourceCatalog(fs, db))
       /\ (MigStep("rollback") /\ mig'.arg \in DOMAIN backups
           /\ manager_exc(mm.target) = "none")
            => /\ mig'.exc = "none"
               /\ HoldsExactly(TargetCatalog(fs', db'), backups[mig'.arg].data)]_vars

\* C17: sync_backends changes the receiving backend alone: the sending
\* backend is as it was, the backup directory is as it was, and the receiver
\* holds what it held with the sender's catalog merged into it.
C17_SyncChangesReceiverOnly ==
    [][(MigStep("sync") /\ BothConstructed)
       => /\ mig'.exc = "none"
          /\ backups' = backups
          /\ IF mig'.arg = <<"source_to_target">>
             THEN /\ BackendKept(mm.source)
                  /\ MergedInto(TargetCatalog(fs', db'), TargetCatalog(fs, db),
                                SourceCatalog(fs, db))
             ELSE /\ BackendKept(mm.target)
                  /\ MergedInto(SourceCatalog(fs', db'), SourceCatalog(fs, db),
                                TargetCatalog(fs, db))]_vars

\* A sync from target to source after which the source holds an object the
\* target does not have next to the objects of the target.
C17_Witness ==
    /\ mig.op = "sync" /\ mig.arg = <<"target_to_source">> /\ mig.exc = "none"
    /\ mig.id = now
    /\ KeysOf(TargetCatalog(fs, db)) # {}
    /\ KeysOf(TargetCatalog(fs, db)) \subseteq KeysOf(SourceCatalog(fs, db))
    /\ KeysOf(SourceCatalog(fs, db)) # KeysOf(TargetCatalog(fs, db))
    /\ backups = EmptyDict

\* The write manager name holds the object of the latest hybrid call with
\* the type of that call.
HybridWritten(name, files, tables) ==
    /\ HasObject(manager_catalog(mm[name], files, tables),
                 hyb'.key[1], hyb'.key[2], hyb'.key[3])
    /\ TypeOf(manager_catalog(mm[name], files, tables), hyb'.key) = hyb'.object_type

\* C18: an update_catalog_info of the HybridBackend attempts the write on
\* every write manager in the order of the list, also after one has failed,
\* so that every manager that did not fail holds the object; it returns
\* true only if no write manager failed.
C18_HybridWritesEveryManager ==
    [][(now' = now + 1)
       => /\ hyb'.attempted = hyb.write_backends
          /\ \A i \in DOMAIN hyb.write_backends :
                IF hyb.write_backends[i] \in hyb'.failing
                THEN BackendKept(mm[hyb.write_backends[i]])
                ELSE HybridWritten(hyb.write_backends[i], fs', db')
          /\ (hyb'.ret = "True") <=> (hyb'.failing = {})]_vars

\* A call whose first write manager failed and whose second holds the
\* object.
C18_Witness ==
    /\ hyb.write_backends = <<"source", "target">>
    /\ hyb.failing = {"source"}
    /\ hyb.attempted = <<"source", "target">>
    /\ hyb.ret = "False"
    /\ HasObject(TargetCatalog(fs, db), hyb.key[1], hyb.key[2], hyb.key[3])
    /\ ~HasObject(SourceCatalog(fs, db), hyb.key[1], hyb.key[2], hyb.key[3])

\* C19: after every update_catalog_info of the HybridBackend write_errors
\* has one entry for each write manager that failed in that call and no
\* other, whatever the calls before left, and get_write_errors() returns
\* those entries.
C19_WriteErrorsOfLatestCall ==
    [][/\ Len(hyb'.write_errors) = Cardinality(hyb'.failing)
       /\ {hyb'.write_errors[i] : i \in DOMAIN hyb'.write_errors} = hyb'.failing
       /\ (now' = now /\ hyb' # hyb) => hyb'.got = hyb.write_errors]_vars

\* get_write_errors() after two calls, the first of which failed on the
\* source and the second on the target: it returns the target alone.
C19_Witness ==
    /\ hyb.before = <<"source">>
    /\ hyb.failing = {"target"}
    /\ hyb.got = <<"target">>
    /\ hyb.write_errors = <<"target">>

\* C20: when update_catalog_info or delete_catalog_entry of the manager
\* reports success, the backend holds the write and the cache holds neither
\* catalog:all nor the key of the object; when the backend write fails or
\* reports no success the cache is as it was.
C20_WriteThenInvalidate ==
    [][(now' = now + 1 /\ last'.via = "facade" /\ last'.op \in {"update", "delete"})
       => IF last'.exc = "none" /\ last'.ret = "True"
          THEN /\ CatalogAllKey \notin DOMAIN cache'
               /\ ObjectKey(last'.key[1], last'.key[2], last'.key[3]) \notin DOMAIN cache'
               /\ (last'.op = "update") <=> Truthy(Stored(fs', db', last'.key))
          ELSE cache' = cache]_vars

\* A delete through the manager that reported success: the object is gone
\* and the cache is empty.
C20_Witness ==
    /\ last.via = "facade" /\ last.op = "delete" /\ last.ret = "True"
    /\ ~Truthy(Stored(fs, db, last.key))
    /\ cache = EmptyDict

FacReads == {"get_catalog_info", "query_objects", "get_statistics"}

\* C21: after bulk_operations or import_catalog returned through a manager
\* whose cache is enabled, the cache holds no entry, and a get_catalog_info,
\* query_objects or get_statistics that follows returns what the backend
\* holds, as the same call does on a manager without a cache.
C21_BulkAndImportClearCache ==
    [][(/\ fac.call.op \in {"bulk_operations", "import_catalog"}
        /\ fac.call.exc = "none"
        /\ fac.cache.enabled)
       => /\ cache = EmptyDict
          /\ fac'.call.op \in FacReads
             => /\ fac'.call.exc = fac'.call.twin.exc
                /\ fac'.call.ret = fac'.call.twin.ret]_vars

\* A bulk_operations that returned through a working cache which held the
\* statistics and the catalog: the cache is empty, and a call can follow.
C21_Witness ==
    /\ fac.call.op = "bulk_operations" /\ fac.call.exc = "none"
    /\ fac.cache = RedisCache
    /\ StatsKey \in DOMAIN fac.call.before
    /\ cache = EmptyDict
    /\ Truthy(Stored(fs, db, K1))
    /\ now < MaxOps

\* C22: through a manager whose cache fails on every operation, is disabled
\* or is the NullCache, every read and write ends as the same call ends on a
\* manager without a cache: the same exception or the same value, the same
\* backend afterwards, and nothing in the cache.
C22_FailingCacheIsTransparent ==
    (fac.cache \in {FailingCache, DisabledCache, NullCache} /\ fac.call.op # "none")
    => /\ fac.call.exc = fac.call.twin.exc
       /\ fac.call.ret = fac.call.twin.ret
       /\ fs = fac.call.twin.fs
       /\ db = fac.call.twin.db
       /\ cache = EmptyDict

\* A get_statistics through a manager whose Redis commands all raise, after
\* a write: it returned the statistics of the backend.
C22_Witness ==
    /\ fac.cache = FailingCache
    /\ fac.call.op = "get_statistics" /\ fac.call.exc = "none"
    /\ fac.call.ret.total_objects > 0
    /\ fac.call.ret = fac.call.twin.ret

\* C25: health_check raises nothing and returns a document whose status is
\* healthy, unhealthy or not_implemented, on a manager in use and on one made
\* for the call; for a configuration naming the mysql backend the caller gets
\* a document with status not_implemented.
C25_HealthCheckAlwaysADocument ==
    fac.call.op \in {"health_check", "DBIOManager(config).health_check",
                     "validate_backend_connection"}
    => /\ fac.call.exc = "none"
       /\ fac.call.ret.status \in {"healthy", "unhealthy", "not_implemented"}
       /\ fac.call.arg = "mysql" => fac.call.ret.status = "not_implemented"

\* A health_check of the PostgreSQL backend whose SELECT 1 failed: the
\* unhealthy document.
C25_Witness ==
    /\ fac.call.op = "health_check" /\ fac.call.exc = "none"
    /\ backend = "postgresql"
    /\ fac.call.ret.status = "unhealthy"

FacadeMethods ==
    {"update_catalog_info", "get_catalog_info", "query_objects", "health_check", "close"}
LegacyHelpers ==
    {"get_object_info", "get_file_info", "module.get_catalog_info",
     "module.update_catalog_info", "module.get_object_info", "module.get_file_info"}

\* C27: a facade method that is no legacy helper returns, or raises a
\* DBIOException whose message holds the message of the failure below it; a
\* legacy helper raises nothing, and hands back {}, False or the default
\* attribute bag when the backend failed.
C27_FacadeWrapsEveryFailure ==
    /\ fac.call.op \in FacadeMethods
       => \/ fac.call.exc = "none"
          \/ /\ fac.call.exc = "DBIOException"
             /\ Len(fac.call.msg) = 2
             /\ fac.call.msg[2] = fac.call.lower
    /\ fac.call.op \in LegacyHelpers
       => /\ fac.call.exc = "none"
          /\ fac.call.lower # "none"
             => fac.call.ret \in {EmptyDict, DefaultFileInfo}

\* A get_catalog_info whose SELECT failed: DBIOException with the message
\* of the OperationalError.
C27_Witness ==
    /\ fac.call.op = "get_catalog_info"
    /\ fac.call.exc = "DBIOException"
    /\ fac.call.msg = WrappedMessage("Failed to get catalog info", "OperationalError")

\* The catalogued records of a file name of volume V1: the record of the
\* library named with it, or of any library that holds it
CataloguedRecords(filename) ==
    IF Len(filename) = 2
    THEN {x \in {backend_get_object(backend, fs, db, "V1", filename[1], filename[2])} :
            Truthy(x)}
    ELSE {manager_catalog(backend, fs, db)["V1"][l][filename[1]] :
            l \in IF In("V1", manager_catalog(backend, fs, db))
                  THEN LibrariesWith(manager_catalog(backend, fs, db), "V1", filename[1])
                  ELSE {}}

\* C28: a get_file_info that no failure hit returns the stored attributes of
\* a catalogued file and the default DATASET bag when nothing is found, for
\* the plain form and for the LIB/FILE form of the name.
C28_FileInfoOrDefault ==
    (fac.call.op = "get_file_info" /\ fac.call.arg[3] = "none")
    => IF CataloguedRecords(fac.call.arg[2]) = {}
       THEN fac.call.ret = DefaultFileInfo
       ELSE fac.call.ret \in CataloguedRecords(fac.call.arg[2])

\* A get_file_info("V1", "O1") that found the object in library L1.
C28_Witness ==
    /\ fac.call.op = "get_file_info" /\ fac.call.arg = <<"V1", <<"O1">>, "none">>
    /\ fac.call.ret \in CataloguedRecords(<<"O1">>)
    /\ fac.call.ret.TYPE = "PGM"

\* C23: begin_transaction while a transaction is active raises
\* TransactionError and leaves that transaction as it was; commit_transaction
\* and rollback_transaction without a transaction raise TransactionError;
\* after a commit or rollback of a transaction, returned or raised, no
\* transaction is active, and a begin_transaction that finds none raises no
\* TransactionError.
C23_TransactionMisuse ==
    /\ (pg.last.op = "begin_transaction" /\ pg.last.before # 0)
       => /\ pg.last.exc = "TransactionError"
          /\ pg.current_connection = pg.last.before
          /\ pg.owner = pg.last.owner
    /\ (pg.last.op \in {"commit_transaction", "rollback_transaction"} /\ pg.last.before = 0)
       => pg.last.exc = "TransactionError"
    /\ (pg.last.op \in {"commit_transaction", "rollback_transaction"} /\ pg.last.before # 0)
       => pg.current_connection = 0
    /\ (pg.last.op = "begin_transaction" /\ pg.last.before = 0)
       => pg.last.exc # "TransactionError"

\* A begin_transaction by B while A holds a transaction: TransactionError,
\* and the transaction is A's still.
C23_Witness ==
    /\ pg.last.op = "begin_transaction" /\ pg.last.caller = "B"
    /\ pg.last.exc = "TransactionError"
    /\ pg.owner = "A"
    /\ pg.current_connection # 0

\* C24: an update_object of a caller who is not the owner of the active
\* transaction does not run on the connection of that transaction, and when
\* it has returned True its row is committed: no commit of the owner is
\* needed for it and no rollback of the owner undoes it.
C24_TransactionExclusivelyOwned ==
    /\ \A c \in Callers :
          (pg.th[c].op = "update_object" /\ pg.owner \notin {"none", c})
          => pg.th[c].conn # pg.current_connection
    /\ (/\ pg.last.op = "update_object" /\ pg.last.ret = "True"
        /\ pg.last.owner \notin {"none", pg.last.caller})
       => pg.last.arg \in pg.rows

\* An update_object of B that returned True while A held a transaction.
C24_Witness ==
    /\ pg.last.op = "update_object" /\ pg.last.ret = "True"
    /\ pg.last.caller = "B" /\ pg.last.owner = "A"
    /\ pg.last.arg = RowOf("B")

\* C26: a close() of a backend that is closed already returns, raises
\* nothing and changes nothing; a close() during a transaction rolls the
\* transaction back and then closes the pool.
C26_CloseIsIdempotent ==
    pg.last.op = "close"
    => /\ pg.last.was_closed => (pg.last.exc = "none" /\ pg.closed)
       /\ pg.last.before # 0
          => /\ pg.current_connection = 0
             /\ pg.pending[pg.last.before] = {}
             /\ pg.closed

\* A close() during the transaction of A with a written row: the rows stay
\* uncommitted, the transaction is over, the pool is closed.
C26_Witness ==
    /\ pg.last.op = "close" /\ pg.last.exc = "none"
    /\ pg.last.before # 0
    /\ pg.current_connection = 0
    /\ pg.closed
    /\ pg.rows = {}

\* C29: when an operation outside a transaction has ended, returned or
\* raised, on a pool that is open, every connection it took from the pool is
\* back in the pool; the connections checked out never exceed MaxConn.
C29_ConnectionsReturned ==
    [][/\ (pg'.last.n # pg.last.n /\ ~pg'.closed) => pg'.last.kept = {}
       /\ Cardinality(pg'.used) <= MaxConn]_vars

\* A health_check that returned the healthy document after taking
\* connection 2 from the pool, with connection 1 in use: 2 is back.
C29_Witness ==
    /\ pg.last.op = "health_check" /\ pg.last.ret = "healthy"
    /\ pg.last.took = {2} /\ pg.last.kept = {}
    /\ pg.used = {1}

\* C30: every import_catalog(merge=False) that began outside a transaction
\* returns, unless a transaction is begun meanwhile, and when it has
\* returned "imported" without coming across a transaction or another call,
\* the table holds the imported row alone.
C30_ImportReplaceReturns ==
    /\ []((/\ pg.last.op = "import_catalog" /\ pg.last.ret = "imported"
           /\ pg.last.before = 0 /\ pg.last.alone)
          => pg.rows = {ImportRow})
    /\ \A c \in Callers :
          [](pg.th[c].op = "import_catalog" /\ pg.th[c].before = 0
             => <>(pg.th[c].pc = "idle" \/ pg.owner # "none"))

\* An import with no other call about, on two connections of the pool: it
\* returned, both connections are back, the table holds the imported row.
C30_Witness ==
    /\ pg.last.op = "import_catalog" /\ pg.last.ret = "imported"
    /\ pg.last.before = 0 /\ pg.last.alone
    /\ pg.last.took = {1, 2} /\ pg.last.kept = {}
    /\ pg.rows = {ImportRow}

\* ------------------------------------ properties of the tables and the files
\* The detail tables of the model and the TYPE each belongs to
DetailTableOf == [PGM |-> "programs", DATASET |-> "datasets"]

\* The detail tables that hold a row of the object
DetailTablesWith(tables, key) ==
    {t \in {"programs", "datasets"} : key \in DOMAIN tables[t]}

\* C31: every object of the tables whose TYPE has a detail table has exactly
\* one detail row, in the detail table of its current TYPE.
C31_OneDetailRowOfCurrentType ==
    \A key \in DOMAIN db.objects :
        db.objects[key].object_type \in DOMAIN DetailTableOf
        => DetailTablesWith(db, key) = {DetailTableOf[db.objects[key].object_type]}

\* An update_object that turned the PGM K1 into a DATASET: the object has the
\* datasets row of the update and the programs row of its earlier TYPE.
C31_Witness ==
    /\ backend = "postgresql"
    /\ last.op = "update" /\ last.via = "backend" /\ last.key = K1 /\ last.ret = "True"
    /\ K1 \in DOMAIN db.objects
    /\ db.objects[K1].object_type = "DATASET"
    /\ DetailTablesWith(db, K1) = {"programs", "datasets"}

\* ------------------------------------------ properties of overlapping calls
\* Both threads have returned from an update_catalog_info of K1 that found
\* no record, the calls overlapped, both had read (and stamped UPDATED)
\* before either wrote, and first wrote before second.
BothCreated(first, second) ==
    /\ first # second
    /\ pc[first] = "idle" /\ pc[second] = "idle"
    /\ local[first].op = "update_catalog_info" /\ local[second].op = "update_catalog_info"
    /\ ~local[first].found /\ ~local[second].found
    /\ second \in local[first].met /\ first \in local[second].met
    /\ local[second].attributes["UPDATED"] < local[first].wrote
    /\ local[first].wrote < local[second].wrote

\* C32: after two overlapping update_catalog_info calls for a key that had
\* no record, the CREATED stored is the one the first write persisted.
C32_FirstCreatedKept ==
    \A first \in Threads, second \in Threads :
        BothCreated(first, second)
        => StoredCreated(backend, fs, db, K1) = local[first].created

\* Two overlapping creations of K1 on the JSON backend have returned.
C32_Witness ==
    /\ backend = "json_file"
    /\ BothCreated("t1", "t2")
    /\ local["t1"].created # 0
    /\ StoredCreated(backend, fs, db, K1) # 0

\* A get_catalog_info of reader and a successful update_catalog_info or
\* delete_catalog_entry of writer overlapped, and both have returned.
ReadMetWrite(reader, writer) ==
    /\ reader # writer
    /\ pc[reader] = "idle" /\ pc[writer] = "idle"
    /\ local[reader].op = "get_catalog_info"
    /\ local[writer].op \in {"update_catalog_info", "delete_catalog_entry"}
    /\ local[writer].success
    /\ writer \in local[reader].met /\ reader \in local[writer].met

\* C37: once a get_catalog_info and a successful write that overlapped it
\* have both returned, the cache holds no catalog:all entry or the backend's
\* current catalog.
C37_NoStaleCatalogAfterOverlap ==
    \A reader \in Threads, writer \in Threads :
        ReadMetWrite(reader, writer)
        => self_cache_get(fac.cache, cache, CatalogAllKey)
               \in {PyNone, backend_get_all_objects(backend, fs, db)}

\* A get_catalog_info that read the catalog with K1 and a delete_catalog_entry
\* of K1 that overlapped it have returned: the cache holds the catalog read.
C37_Witness ==
    /\ ReadMetWrite("t1", "t2")
    /\ local["t2"].op = "delete_catalog_entry"
    /\ Truthy(local["t1"].catalog)
    /\ self_cache_get(fac.cache, cache, CatalogAllKey) = local["t1"].catalog

\* ------------------------------------------- properties of the stored records
\* C33: every object the backend holds carries TYPE, CREATED and UPDATED.
C33_StoredObjectsAreStamped ==
    \A k \in catalog_keys(manager_catalog(backend, fs, db)) :
        {"TYPE", "CREATED", "UPDATED"}
            \subseteq DOMAIN manager_catalog(backend, fs, db)[k[1]][k[2]][k[3]]

\* A bulk_operations through the facade that created K1 on the JSON backend:
\* the record holds the attributes of the entry and no stamp.
C33_Witness ==
    /\ backend = "json_file"
    /\ fac.call.op = "bulk_operations" /\ fac.call.exc = "none"
    /\ fac.call.ret.created = 1
    /\ json_get_object(fs, "V1", "L1", "O1") = [TYPE |-> "PGM"]

\* C34: the catalog a JSONFileBackend constructed after a kill serves is the
\* complete catalog of before the write that was in progress or the complete
\* catalog that write was saving.
C34_RestartServesPreOrPost ==
    observed.by = "restart" => observed.out \in {observed.pre, observed.post}

\* A kill after the rename of the .tmp file, before the removal of the
\* backup: the new backend serves the catalog the write was saving.
C34_Witness ==
    /\ observed.by = "restart" /\ observed.at = "remove_backup"
    /\ observed.out = observed.post
    /\ observed.post # observed.pre
    /\ fs.backup.state = "complete"

\* ------------------------------------------------ properties of the batches
\* One entry of the batch applied when it does not fail, skipped (and
\* counted) when the loop counts it in errors
SkipFailing(acc, stepped) ==
    IF stepped.stats.errors > acc.stats.errors
    THEN [catalog |-> acc.catalog, stats |-> stepped.stats]
    ELSE stepped

\* The batch with only its non-failing entries applied, in list order
NonFailingApplied(acc, operations) ==
    LET skipping[i \in 0..Len(operations)] ==
            IF i = 0 THEN acc
            ELSE SkipFailing(skipping[i - 1],
                             json_bulk_step(skipping[i - 1], operations[i]))
    IN  skipping[Len(operations)]

\* C35: the catalog a bulk_operations of the JSON backend saved is the
\* catalog read at its start with the non-failing entries of the batch
\* applied in list order; an entry counted in errors has left nothing.
C35_FailedEntryLeavesNothing ==
    (last.op = "bulk" /\ last.via = "backend")
    => load_catalog(fs)
           = NonFailingApplied([catalog |-> last.out, stats |-> ZeroBulkStats],
                               last.arg).catalog

\* A batch with one failing update of K2, which had a record: the entry is
\* counted in errors and the record of K2 is as it was.
C35_Witness ==
    /\ last.op = "bulk" /\ last.via = "backend" /\ last.arg = BatchBadAttributes
    /\ last.stats.errors = 1 /\ last.stats.created = 1
    /\ HasObject(last.out, "V1", "L1", "O2")
    /\ json_get_object(fs, "V1", "L1", "O2") = last.out["V1"]["L1"]["O2"]

\* ------------------------------------------ properties of the cached reads
\* A result whatever the time at which it was computed
Untimed(result) ==
    IF "timestamp" \in DOMAIN result THEN [result EXCEPT !.timestamp = 0] ELSE result

\* C36: on a manager with a working cache, what query_objects and
\* get_statistics return is computed from the backend state of the moment,
\* which includes every write made before the call; a result cached before
\* a write is not returned after it.
C36_ReadsAfterWritesAreFresh ==
    (/\ fac.cache = RedisCache
     /\ fac.call.op \in {"query_objects", "get_statistics"}
     /\ fac.call.exc = "none" /\ fac.call.twin.exc = "none")
    => Untimed(fac.call.ret) = Untimed(fac.call.twin.ret)

\* A get_statistics answered from the cache after an update_catalog_info
\* had created an object: the cached count is the one of before the write.
C36_Witness ==
    /\ fac.cache = RedisCache
    /\ fac.call.op = "get_statistics" /\ fac.call.exc = "none"
    /\ fac.call.twin.exc = "none"
    /\ StatsKey \in DOMAIN fac.call.before
    /\ fac.call.ret = fac.call.before[StatsKey]
    /\ fac.call.ret.total_objects = 0
    /\ fac.call.twin.ret.total_objects = 1

\* C38: a read of the catalog through one of two managers that share a cache
\* store returns the catalog of that manager's own backend, and the target
\* catalog a migration's validation compares is the one the target backend
\* holds.
C38_ReadsOwnBackend ==
    /\ (last.op = "get_catalog_info" => last.out = last.own)
    /\ (mig.op = "migrate" /\ mig.stats.validation.ran
           => mig.checked = mig.persisted)

\* A validation that compared the source's cached catalog in place of the
\* target's: the target backend holds something else, which an honest
\* comparison would have reported, and the validation found no difference.
C38_Witness ==
    /\ mig.op = "migrate" /\ mig.stats.validation.ran
    /\ mig.checked # mig.persisted
    /\ mig.checked = mig.source
    /\ mig.stats.validation.success
    /\ ~validate_migration(mig.source, mig.persisted).success

\* object_data.get('TYPE') of a record of get_all_objects
type_of_record(object_data) == AttrGet(object_data, "TYPE", "None")

\* The (volume, library, name, TYPE) of every object of a catalog
TypedObjects(catalog) ==
    {<<k[1], k[2], k[3], type_of_record(catalog[k[1]][k[2]][k[3]])>> :
        k \in catalog_keys(catalog)}

\* total_objects, volumes and libraries of a statistics document
StatCounts(stats) ==
    [total_objects |-> stats.total_objects, volumes |-> stats.volumes,
     libraries |-> stats.libraries]

\* C39: after the same update_object and delete_object calls from empty, the
\* JSON and the PostgreSQL backend report the same (volume, library, name,
\* TYPE) in get_all_objects and the same total_objects, volumes and libraries
\* in get_statistics.
C39_BackendsAgree ==
    /\ TypedObjects(json_get_all_objects(fs)) = TypedObjects(pg_get_all_objects(db))
    /\ StatCounts(json_get_statistics(fs, now).ret) = StatCounts(pg_get_statistics(db, now).ret)

\* After a delete that both backends reported done, the two list the same
\* typed objects and count as many, yet count different volumes or
\* libraries.
C39_Witness ==
    /\ last.op = "delete_object" /\ last.json = "True" /\ last.pg = "True"
    /\ TypedObjects(json_get_all_objects(fs)) = TypedObjects(pg_get_all_objects(db))
    /\ json_get_statistics(fs, now).ret.total_objects = pg_get_statistics(db, now).ret.total_objects
    /\ json_get_statistics(fs, now).ret.volumes < pg_get_statistics(db, now).ret.volumes
    /\ json_get_statistics(fs, now).ret.libraries < pg_get_statistics(db, now).ret.libraries

\* C40: when rollback_migration, given the backup_path of a run with
\* backup_before=True that failed after its import began, has returned, the
\* target backend holds the objects, with their TYPE, that it held before
\* the run started.
C40_RollbackRestoresTarget ==
    (mig.op = "rollback" /\ mig.exc = "none")
        => TypedObjects(mig.after) = TypedObjects(mig.before)

\* A rollback has returned and the target holds the objects of the source,
\* which are not the ones it held before the run.
C40_Witness ==
    /\ mig.op = "rollback" /\ mig.exc = "none"
    /\ TypedObjects(mig.before) # {}
    /\ TypedObjects(mig.after) # TypedObjects(mig.before)
    /\ TypedObjects(mig.after) = TypedObjects(backups[mig.backup_path].data)

====
